---- MODULE Spec2Model ----
(***************************************************************************)
(* A model of the bluesky-bot post pipeline: the two generation strategies *)
(* (scripts/self_refine_bot.py, scripts/dpo_bot.py), their validation      *)
(* rules, the round-robin orchestrator (scripts/orchestrator.py) and the   *)
(* preference manager (scripts/preference_manager.py).                     *)
(*                                                                         *)
(* Three specifications share the module:                                  *)
(*   Spec          the orchestrator: start() and its posting ticks;        *)
(*   SpecStrategy  one strategy object: generate_post_with_details() and   *)
(*                 validate_post() on arbitrary replies of the services;   *)
(*   SpecPM        the preference manager, used by two processes at once.  *)
(***************************************************************************)
EXTENDS Integers, Sequences, FiniteSets, TLC

VARIABLES
  \* ---- orchestrator (BotOrchestrator) and its database bot_showdown.db
  bots,               \* self.bots: the enabled strategies, in list order
  current_bot_index,  \* self.current_bot_index
  is_running,         \* self.is_running
  posts,              \* table posts, in insertion order
  post_process,       \* table post_process, in autoincrement order
  tick,               \* what the last _post_next call did (a record), history
  invoked,            \* list positions of the bots invoked so far, history
  main,               \* where the main thread is in start(), or how start() ended:
                      \* "returned" after the duration, "interrupt_stopped" after a
                      \* caught interrupt, "interrupted" and "raised" when the interrupt
                      \* or an exception left start()
  now,                \* datetime.now() of the orchestrator, in minutes
  start_time,         \* self.start_time: <<>> for None, <<t>> for the time t
  jobs,               \* the schedule module's jobs: job name -> next_run
  metrics,            \* the calls of _collect_metrics so far, history
  \* ---- one strategy object called on its own
  gen,                \* last generate_post_with_details() call and its result
  val,                \* last validate_post() call and its result
  \* ---- preference manager (PreferenceManager) and preferences.db
  user_preferences,   \* committed rows of table user_preferences
  deployed_models,    \* committed rows of table deployed_models
  clock,              \* datetime.now(), read by every call that stamps a row
  dbLock,             \* the process that holds the database write lock, or None
  proc,               \* per process: where it is in deploy_dpo_model and its locals
  saves,              \* per session id: the example lists saved so far, history
  outcome             \* per process: how its last manager call ended, history

runVars == <<main, now, start_time, jobs, metrics>>
orchVars == <<bots, current_bot_index, is_running, posts, post_process, tick, invoked, runVars>>
stratVars == <<gen, val>>
pmVars == <<user_preferences, deployed_models, clock, dbLock, proc, saves, outcome>>
vars == <<orchVars, stratVars, pmVars>>

None == "None"

(***************************************************************************)
(* TEXT.  A string is a sequence of tokens; a token is a word w of n       *)
(* characters (Python's len counts code points).  A run of n characters of *)
(* ordinary prose is the one token Prose(n), so that a text of 300         *)
(* characters is a short sequence.  Substring tests of the code ("x in s") *)
(* are tests for a token; lower() maps a token to its lower-case word.     *)
(***************************************************************************)
Tok(w, n) == [w |-> w, n |-> n]
Prose(n) == Tok("prose", n)
Sp == Tok(" ", 1)
Colon == Tok(":", 1)
Hash == Tok("#", 1)
\* the signature emoji of the two strategies: U+270D U+FE0F and U+1F504
WritingHand == Tok("writing_hand", 2)
Arrows == Tok("arrows", 1)
Ahoy == Tok("Ahoy", 4)
Matey == Tok("Matey", 5)
Avast == Tok("Avast", 5)
Found == Tok("found", 5)
Crypto == Tok("crypto", 6)
CryptoUpper == Tok("CRYPTO", 6)
Sell == Tok("sell", 4)
AI == Tok("AI", 2)
Treasure == Tok("treasure", 8)
KwCandidate == Tok("CANDIDATE", 9)
KwWinner == Tok("SELECTED WINNER", 15)
Digit(i) == Tok(<<"1", "2", "3", "4", "5", "6">>[i], 1)

RECURSIVE StrLen(_)
StrLen(s) == IF s = <<>> THEN 0 ELSE Head(s).n + StrLen(Tail(s))

LowerWord(w) ==
  CASE w = "Ahoy" -> "ahoy"
    [] w = "Matey" -> "matey"
    [] w = "Avast" -> "avast"
    [] w = "CRYPTO" -> "crypto"
    [] w = "AI" -> "ai"
    [] w = "GPT" -> "gpt"
    [] w = "ML" -> "ml"
    [] w = "CANDIDATE" -> "candidate"
    [] w = "SELECTED WINNER" -> "selected winner"
    [] OTHER -> w

Lower(s) == [i \in 1..Len(s) |-> Tok(LowerWord(s[i].w), s[i].n)]

Contains(s, w) == \E i \in 1..Len(s) : s[i].w = w

Count(s, w) == Cardinality({i \in 1..Len(s) : s[i].w = w})

RECURSIVE LStrip(_)
LStrip(s) == IF s # <<>> /\ Head(s) = Sp THEN LStrip(Tail(s)) ELSE s

RECURSIVE RStrip(_)
RStrip(s) == IF s # <<>> /\ s[Len(s)] = Sp THEN RStrip(SubSeq(s, 1, Len(s) - 1)) ELSE s

Strip(s) == RStrip(LStrip(s))

\* s.split(':', 1)[1]: what follows the first colon
AfterColon(s) ==
  LET i == CHOOSE j \in 1..Len(s) : s[j] = Colon /\ \A k \in 1..(j - 1) : s[k] # Colon
  IN SubSeq(s, i + 1, Len(s))

StartsWith(s, w) == s # <<>> /\ Head(s).w = w

(***************************************************************************)
(* VALIDATION RULES                                                        *)
(***************************************************************************)
\* the platform limit every validate_post compares len(content) with
MaxPostLength == 300

SelfRefine_pirate_indicators ==
  {"ahoy", "matey", "avast", "spotted", "discovered", "treasure",
   "crew", "ship", "sail", "adventure", "voyage", "aboard"}

DPO_pirate_indicators ==
  {"ahoy", "matey", "avast", "spotted", "discovered", "treasure",
   "crew", "ship", "sail", "adventure", "voyage", "aboard", "found"}

\* the list both strategies' validate_post call `prohibited`
prohibited == {"crypto", "trading", "buy", "sell", "investment advice"}

\* a length check that turns away a text of exactly the limit
SelfRefineBot_validate_post_below_limit(content) ==
  LET content_lower == Lower(content)
  IN IF StrLen(content) >= MaxPostLength THEN FALSE
     ELSE IF ~Contains(content, "writing_hand") THEN FALSE
     ELSE IF \E word \in prohibited : Contains(content_lower, word) THEN FALSE
     ELSE TRUE

\* A weak pirate tone only prints a warning: has_pirate_tone is computed and
\* never decides the result.
SelfRefineBot_validate_post(content) ==
  LET content_lower == Lower(content)
      has_pirate_tone == \E indicator \in SelfRefine_pirate_indicators :
                            Contains(content_lower, indicator)
  IN IF StrLen(content) > MaxPostLength THEN FALSE
     ELSE IF ~Contains(content, "writing_hand") THEN FALSE
     ELSE IF \E word \in prohibited : Contains(content_lower, word) THEN FALSE
     ELSE TRUE

\* a validator that turns a weak pirate tone into a rejection
DPOBot_validate_post_wants_tone(content) ==
  LET content_lower == Lower(content)
      has_pirate_tone == \E indicator \in DPO_pirate_indicators :
                            Contains(content_lower, indicator)
  IN IF StrLen(content) > MaxPostLength THEN FALSE
     ELSE IF ~Contains(content, "arrows") THEN FALSE
     ELSE IF \E word \in prohibited : Contains(content_lower, word) THEN FALSE
     ELSE has_pirate_tone

DPOBot_validate_post(content) ==
  LET content_lower == Lower(content)
      has_pirate_tone == \E indicator \in DPO_pirate_indicators :
                            Contains(content_lower, indicator)
  IN IF StrLen(content) > MaxPostLength THEN FALSE
     ELSE IF ~Contains(content, "arrows") THEN FALSE
     ELSE IF \E word \in prohibited : Contains(content_lower, word) THEN FALSE
     ELSE TRUE

\* config['rules'] as the repository's own setup test writes it
rules_forbidden_words == {"crypto"}
rules_max_hashtags == 3

BaseBot_validate_post(post) ==
  IF StrLen(post) > MaxPostLength THEN FALSE
  ELSE IF \E w \in rules_forbidden_words : Contains(Lower(post), LowerWord(w)) THEN FALSE
  ELSE IF Count(post, "#") > rules_max_hashtags THEN FALSE
  ELSE TRUE

Kinds == {"self_refine", "dpo", "base"}

validate_post(kind, content) ==
  CASE kind = "self_refine" -> SelfRefineBot_validate_post(content)
    [] kind = "dpo" -> DPOBot_validate_post(content)
    [] OTHER -> BaseBot_validate_post(content)

(***************************************************************************)
(* EXTERNAL SERVICES.  A call of the text service returns a text or raises *)
(* (a timeout, a connection error, a reply without content); str(e) of     *)
(* these exceptions is a non-empty message.  A moderation call answers     *)
(* "pass" or "flagged", or raises ("error").                               *)
(***************************************************************************)
ChatOk(text) == [ok |-> TRUE, text |-> text, msg |-> ""]
ChatRaise(msg) == [ok |-> FALSE, text |-> <<>>, msg |-> msg]
ExceptionMessages ==
  {"Request timed out.", "'NoneType' object has no attribute 'strip'"}
ModerationReplies == {"pass", "flagged", "error"}

\* a call whose prompt is sent as the template, nothing formatted into it
Call_with_bare_template(svc, prompt, args) == [svc |-> svc, prompt |-> prompt, args |-> <<>>]

\* one entry of the log of service calls a generate() made: the service, the
\* prompt used and the texts formatted into the prompt (or moderated)
Call(svc, prompt, args) == [svc |-> svc, prompt |-> prompt, args |-> args]

\* a moderation check that rejects when the moderation call raises
SelfRefineBot_passes_moderation_fail_closed(reply) == reply = "pass"

\* _passes_moderation of both strategies: not flagged, and True when the
\* moderation call itself raises
SelfRefineBot_passes_moderation(reply) ==
  IF reply = "error" THEN TRUE ELSE reply # "flagged"

\* a moderation gate that lets every winner through
DPOBot_passes_moderation_unchecked(reply) == TRUE

\* a moderation gate that rejects the winner when the moderation call raises
DPOBot_passes_moderation_fail_closed(reply) == reply = "pass"

DPOBot_passes_moderation(reply) ==
  IF reply = "error" THEN TRUE ELSE reply # "flagged"

(***************************************************************************)
(* SELF-REFINE STRATEGY                                                    *)
(***************************************************************************)
\* a pool whose first post has lost its signature emoji
SelfRefine_fallbacks_unsigned ==
  << <<Ahoy, Prose(195)>>,
     <<Matey, Prose(174), WritingHand>>,
     <<Avast, Prose(170), WritingHand>> >>

\* the pool of SelfRefineBot._generate_fallback_post (199, 181, 177 characters)
SelfRefine_fallbacks ==
  << <<Ahoy, Prose(193), WritingHand>>,
     <<Matey, Prose(174), WritingHand>>,
     <<Avast, Prose(170), WritingHand>> >>

SelfRefineBot_generate_fallback_post(pick) == SelfRefine_fallbacks[pick]

\* process_details; a key the code has not set reads as the empty text, as
\* every reader uses .get(key, '')
SelfRefine_details ==
  [bot_type |-> "self_refine", initial_draft |-> <<>>, critique |-> <<>>,
   refined_post |-> <<>>, improvement_made |-> FALSE, error_message |-> ""]

\* a return that loses the error
Result_without_error(text, details, calls) ==
  [text |-> text, details |-> [details EXCEPT !.error_message = ""], calls |-> calls]

\* what generate_post_with_details returns, with the log of the calls it made
Result(text, details, calls) == [text |-> text, details |-> details, calls |-> calls]

\* a comparison of lengths only
improvement_made_by_length(initial_draft, refined_post) ==
  StrLen(refined_post) # StrLen(initial_draft)

\* if len(refined_post) != len(initial_draft) or refined_post != initial_draft
improvement_made(initial_draft, refined_post) ==
  StrLen(refined_post) # StrLen(initial_draft) \/ refined_post # initial_draft

\* SelfRefineBot.generate_post_with_details.  r holds what the services answer:
\* r.draft, r.critique, r.refine the three text-service replies, r.mod1, r.mod2
\* the two moderation replies, r.pick what random.choice draws.
SelfRefineBot_generate_post_with_details(use_moderation, r) ==
  LET d0 == SelfRefine_details
      c1 == <<Call("chat", "generate", <<>>)>>
  IN
  IF ~r.draft.ok
  THEN Result(SelfRefineBot_generate_fallback_post(r.pick),
              [d0 EXCEPT !.error_message = r.draft.msg], c1)
  ELSE
  LET initial_draft == Strip(r.draft.text)
      d1 == [d0 EXCEPT !.initial_draft = initial_draft]
      c2 == IF use_moderation
            THEN Append(c1, Call("moderation", "input", <<initial_draft>>)) ELSE c1
  IN
  IF use_moderation /\ ~SelfRefineBot_passes_moderation(r.mod1)
  THEN Result(SelfRefineBot_generate_fallback_post(r.pick),
              [d1 EXCEPT !.error_message = "Content flagged by moderation"], c2)
  ELSE
  LET c3 == Append(c2, Call("chat", "critique", <<initial_draft>>))
  IN
  IF ~r.critique.ok
  THEN Result(SelfRefineBot_generate_fallback_post(r.pick),
              [d1 EXCEPT !.error_message = r.critique.msg], c3)
  ELSE
  LET critique == Strip(r.critique.text)
      d2 == [d1 EXCEPT !.critique = critique]
      c4 == Append(c3, Call("chat", "refine", <<initial_draft, critique>>))
  IN
  IF ~r.refine.ok
  THEN Result(SelfRefineBot_generate_fallback_post(r.pick),
              [d2 EXCEPT !.error_message = r.refine.msg], c4)
  ELSE
  LET refined_post == Strip(r.refine.text)
      d3 == [d2 EXCEPT !.refined_post = refined_post]
      d4 == IF improvement_made(initial_draft, refined_post)
            THEN [d3 EXCEPT !.improvement_made = TRUE] ELSE d3
      c5 == IF use_moderation
            THEN Append(c4, Call("moderation", "input", <<refined_post>>)) ELSE c4
  IN
  IF use_moderation /\ ~SelfRefineBot_passes_moderation(r.mod2)
  THEN Result(initial_draft, d4, c5)
  ELSE Result(refined_post, d4, c5)

(***************************************************************************)
(* PREFERENCE-SELECTION (DPO) STRATEGY.  A reply of the text service is    *)
(* here a sequence of lines, each a text: content.split('\n').             *)
(***************************************************************************)
num_candidates == 4
MinCandidateLength == 20

\* the pool of DPOBot._generate_fallback_post (172, 170, 149 characters)
DPO_fallbacks ==
  << <<Ahoy, Prose(167), Arrows>>,
     <<Matey, Prose(164), Arrows>>,
     <<Avast, Prose(143), Arrows>> >>

DPOBot_generate_fallback_post(pick) == DPO_fallbacks[pick]

RECURSIVE DropBlankHead(_)
DropBlankHead(ls) ==
  IF ls # <<>> /\ Strip(Head(ls)) = <<>> THEN DropBlankHead(Tail(ls)) ELSE ls

RECURSIVE DropBlankTail(_)
DropBlankTail(ls) ==
  IF ls # <<>> /\ Strip(ls[Len(ls)]) = <<>>
  THEN DropBlankTail(SubSeq(ls, 1, Len(ls) - 1)) ELSE ls

\* content.strip().split('\n')
StripSplit(ls) ==
  LET a == DropBlankTail(DropBlankHead(ls))
  IN IF a = <<>> THEN << <<>> >>
     ELSE IF Len(a) = 1 THEN << Strip(a[1]) >>
     ELSE << LStrip(a[1]) >> \o SubSeq(a, 2, Len(a) - 1) \o << RStrip(a[Len(a)]) >>

Take(seq, n) == SubSeq(seq, 1, IF Len(seq) < n THEN Len(seq) ELSE n)

\* the loop over lines that collects "CANDIDATE n: text" entries
RECURSIVE StructuredCandidates(_)
StructuredCandidates(lines) ==
  IF lines = <<>> THEN <<>>
  ELSE LET line == Head(lines)
           rest == StructuredCandidates(Tail(lines))
       IN IF StartsWith(Strip(line), "CANDIDATE") /\ Contains(line, ":")
          THEN LET candidate == Strip(AfterColon(line))
               IN IF candidate # <<>> /\ StrLen(candidate) > MinCandidateLength
                  THEN <<candidate>> \o rest ELSE rest
          ELSE rest

\* emoji_lines: every stripped line that holds the emoji and is long enough
RECURSIVE EmojiLines(_)
EmojiLines(lines) ==
  IF lines = <<>> THEN <<>>
  ELSE LET line == Head(lines)
           rest == EmojiLines(Tail(lines))
       IN IF Contains(line, "arrows") /\ StrLen(Strip(line)) > MinCandidateLength
          THEN <<Strip(line)>> \o rest ELSE rest

\* DPOBot._generate_candidates: [candidates, calls]
DPOBot_generate_candidates(reply) ==
  IF ~reply.ok THEN <<>>
  ELSE LET lines == StripSplit(reply.text)
           structured == StructuredCandidates(lines)
           candidates == IF Len(structured) < 2
                         THEN Take(EmojiLines(lines), num_candidates)
                         ELSE structured
       IN Take(candidates, num_candidates)

IsWinnerLine(line) ==
  LET t == Strip(line) IN Len(t) >= 2 /\ t[1].w = "SELECTED WINNER" /\ t[2] = Colon

\* the first loop of _select_best_candidate: the text after the colon of the
\* first "SELECTED WINNER:" line, "" when there is none
RECURSIVE WinnerLineText(_)
WinnerLineText(lines) ==
  IF lines = <<>> THEN <<>>
  ELSE IF IsWinnerLine(Head(lines)) THEN Strip(AfterColon(Head(lines)))
  ELSE WinnerLineText(Tail(lines))

\* the second loop: the first line that holds the emoji and is long enough
RECURSIVE FirstEmojiLine(_)
FirstEmojiLine(lines) ==
  IF lines = <<>> THEN <<>>
  ELSE IF Contains(Head(lines), "arrows") /\ StrLen(Strip(Head(lines))) > MinCandidateLength
  THEN Strip(Head(lines))
  ELSE FirstEmojiLine(Tail(lines))

\* a selection that takes the first candidate whatever the evaluation says
DPOBot_select_first_candidate(candidates, reply) ==
  [selected |-> IF candidates # <<>> THEN candidates[1] ELSE <<>>,
   ranking |-> [evaluation |-> IF reply.ok THEN StripSplit(reply.text) ELSE <<>>,
                exception |-> reply.msg]]

\* DPOBot._select_best_candidate: the pair (selected, ranking); ranking is the
\* evaluation text, or str(e) when the call raised
DPOBot_select_best_candidate(candidates, reply) ==
  IF ~reply.ok
  THEN [selected |-> IF candidates # <<>> THEN candidates[1] ELSE <<>>,
        ranking |-> [evaluation |-> <<>>, exception |-> reply.msg]]
  ELSE LET lines == StripSplit(reply.text)
           s1 == WinnerLineText(lines)
           s2 == IF s1 = <<>> THEN FirstEmojiLine(lines) ELSE s1
           s3 == IF s2 = <<>> /\ candidates # <<>> THEN candidates[1] ELSE s2
       IN [selected |-> s3, ranking |-> [evaluation |-> lines, exception |-> ""]]

DPO_details ==
  [bot_type |-> "dpo", candidates_generated |-> <<>>,
   preference_ranking |-> [evaluation |-> <<>>, exception |-> ""],
   selected_candidate |-> <<>>, improvement_made |-> FALSE, error_message |-> ""]

\* DPOBot.generate_post_with_details.  r.cands and r.rank are the two
\* text-service replies, r.mod the moderation reply, r.pick random.choice.
DPOBot_generate_post_with_details(use_moderation, r) ==
  LET candidates == DPOBot_generate_candidates(r.cands)
      d1 == [DPO_details EXCEPT !.candidates_generated = candidates]
      c1 == <<Call("chat", "generate_candidates", <<>>)>>
  IN
  IF candidates = <<>>
  THEN Result(DPOBot_generate_fallback_post(r.pick),
              [d1 EXCEPT !.error_message = "Failed to generate candidates"], c1)
  ELSE
  LET sel == DPOBot_select_best_candidate(candidates, r.rank)
      selected_post == sel.selected
      d2 == [d1 EXCEPT !.preference_ranking = sel.ranking,
                       !.selected_candidate = selected_post]
      c2 == Append(c1, Call("chat", "preference_evaluation", candidates))
  IN
  IF selected_post = <<>>
  THEN Result(DPOBot_generate_fallback_post(r.pick),
              [d2 EXCEPT !.error_message = "Preference selection failed"], c2)
  ELSE
  LET c3 == IF use_moderation
            THEN Append(c2, Call("moderation", "input", <<selected_post>>)) ELSE c2
  IN
  IF use_moderation /\ ~DPOBot_passes_moderation(r.mod)
  THEN Result(DPOBot_generate_fallback_post(r.pick),
              [d2 EXCEPT !.error_message = "Content flagged by moderation"], c3)
  ELSE Result(selected_post, [d2 EXCEPT !.improvement_made = TRUE], c3)

(***************************************************************************)
(* WHAT THE SERVICES MAY ANSWER: the replies the strategies are run on.    *)
(***************************************************************************)
\* random.choice over a pool: an index into the pool
Picks == DOMAIN SelfRefine_fallbacks

DraftGood == <<Ahoy, Prose(120), Sp, WritingHand>>
DraftTexts ==
  { DraftGood,
    <<Sp>> \o DraftGood \o <<Sp, Sp>>,
    <<Prose(80)>>,
    <<Ahoy, Sp, Crypto, Prose(50), WritingHand>>,
    <<>> }
CritiqueTexts == { <<Prose(200), Colon, Sp, Prose(40)>> }
\* a refinement may repeat the draft (with or without the blanks around it),
\* keep its length and change its words, or be another text altogether
RefineTexts(draft) ==
  { draft,
    Strip(draft),
    <<Matey, Prose(119), Sp, WritingHand>>,
    <<Avast, Prose(60), Sp, WritingHand, Sp>>,
    <<Ahoy, Prose(300), WritingHand>>,
    <<Prose(90)>> }

ChatReplies(texts) ==
  {ChatOk(t) : t \in texts} \cup {ChatRaise(m) : m \in ExceptionMessages}

SelfRefineReplies ==
  UNION { UNION { { [draft |-> d, mod1 |-> m1, critique |-> c, refine |-> f,
                       mod2 |-> m2, pick |-> p] :
                        m1 \in ModerationReplies, m2 \in ModerationReplies, p \in Picks,
                        f \in ChatReplies(RefineTexts(d.text)) } :
                  c \in ChatReplies(CritiqueTexts) } :
          d \in ChatReplies(DraftTexts) }

\* candidate field notes as the text service writes them
Cand(i) ==
  IF i = 2 THEN <<Matey, Colon, Sp, Prose(42), Sp, Arrows>>
  ELSE IF i = 3 THEN <<Found, Sp, Prose(43), Sp, Arrows, Sp, Hash, Prose(2)>>
  ELSE <<Ahoy, Sp, Prose(40 + i), Sp, Arrows>>
ShortCand == <<Prose(10), Sp, Arrows>>
PlainCand == <<Ahoy, Sp, Prose(60)>>

\* "CANDIDATE i: text", the format the generate_candidates prompt asks for
CandLine(i, text) == <<KwCandidate, Sp, Digit(i), Colon, Sp>> \o text
\* "i. text", a numbered list instead
ListLine(i, text) == <<Digit(i), Prose(1), Sp>> \o text
Intro == <<Prose(30), Colon>>

CandidateTexts ==
  { [i \in 1..k |-> CandLine(i, Cand(i))] : k \in 1..(num_candidates + 1) }
  \cup
  { <<Intro, <<>>, CandLine(1, Cand(1)), <<>>, <<Sp, Sp>> \o CandLine(2, Cand(2)) \o <<Sp>>,
      CandLine(3, Cand(3)), CandLine(4, Cand(4)), <<>>, <<Sp>>>>,
    <<CandLine(1, Cand(1)), CandLine(2, ShortCand), CandLine(3, Cand(3))>>,
    <<CandLine(1, ShortCand), CandLine(2, Cand(2))>>,
    <<CandLine(1, PlainCand), CandLine(2, Cand(2))>>,
    <<CandLine(1, PlainCand)>>,
    [i \in 1..(num_candidates + 1) |-> ListLine(i, Cand(i))],
    <<Intro, ListLine(1, Cand(1)), ListLine(2, PlainCand), ListLine(3, ShortCand)>>,
    <<Intro, <<Prose(120)>>>>,
    <<>> }

CandidateReplies == ChatReplies(CandidateTexts)

\* "SELECTED WINNER: text", the format the preference_evaluation prompt asks for
WinnerLine(text) == <<KwWinner, Colon, Sp>> \o text
RankingHead == <<Prose(7), Colon>>
RankingLine(i) == <<Digit(i), Prose(1), Sp, Prose(9), Sp, Digit(i), Sp, Prose(25)>>
CandidateRef(i) == <<Prose(9), Sp, Digit(i)>>
Paraphrase == <<Ahoy, Sp, Prose(77), Sp, Arrows>>

\* evaluations of the candidates cs: the winner pasted (plain, indented, after
\* the ranking), the winner named by its number only, a rewritten winner, an
\* empty winner line, no winner line at all
RankingTexts(cs) ==
  UNION { { <<RankingHead, RankingLine(i), <<>>, WinnerLine(cs[i])>>,
            <<<<Sp, Sp>> \o WinnerLine(cs[i]) \o <<Sp>>, WinnerLine(cs[1])>>,
            <<RankingHead, WinnerLine(CandidateRef(i))>>,
            <<<<KwWinner, Colon>>, cs[i]>>,
            <<RankingHead, ListLine(i, cs[i]), RankingLine(1)>> } : i \in 1..Len(cs) }
  \cup
  { <<RankingHead, WinnerLine(Paraphrase)>>,
    <<RankingHead, RankingLine(1)>>,
    <<>> }

DPOReplies ==
  UNION { { [cands |-> c, rank |-> k, mod |-> m, pick |-> p] :
              k \in ChatReplies(RankingTexts(DPOBot_generate_candidates(c))),
              m \in ModerationReplies, p \in Picks } :
          c \in CandidateReplies }

\* texts put to validate_post: a short core (tone, forbidden words, signature
\* emoji, hashtags in every combination) padded with prose to a total length
Tones == { <<>>, <<Ahoy, Sp>>, <<Found, Sp>> }
Forbidden == { <<>>, <<Crypto, Sp>>, <<CryptoUpper, Sp>>, <<Sell, Sp>> }
Markers == { <<>>, <<WritingHand>>, <<Arrows>>, <<WritingHand, Arrows>> }
Hashtags == { <<>>, <<Hash, Hash, Hash, Sp>>, <<Hash, Hash, Hash, Hash, Sp>> }
Cores == { t \o f \o h \o m : t \in Tones, f \in Forbidden, h \in Hashtags, m \in Markers }
Padded(core, total) ==
  IF total > StrLen(core) THEN <<Prose(total - StrLen(core))>> \o core ELSE core
ValidateTexts ==
  { Padded(core, total) :
      core \in Cores,
      total \in {0, 150, MaxPostLength - 1, MaxPostLength, MaxPostLength + 1} }

(***************************************************************************)
(* STATE OF THE PARTS A SPECIFICATION DOES NOT RUN                         *)
(***************************************************************************)
NoCall == [op |-> "none"]
NoTick == [pos |-> 0]

\* the main thread before start() is called
RunIdle ==
  /\ main = "created"
  /\ now = 0
  /\ start_time = <<>>
  /\ jobs = <<>>
  /\ metrics = <<>>

OrchIdle ==
  /\ RunIdle
  /\ bots = <<>>
  /\ current_bot_index = 0
  /\ is_running = FALSE
  /\ posts = <<>>
  /\ post_process = <<>>
  /\ tick = NoTick
  /\ invoked = <<>>

StratIdle ==
  /\ gen = NoCall
  /\ val = NoCall

(***************************************************************************)
(* SpecStrategy: a caller holds one strategy object and calls it.          *)
(***************************************************************************)
\* generate_post_with_details() of a SelfRefineBot, on any replies
CallSelfRefineGenerate ==
  /\ gen = NoCall /\ val = NoCall
  /\ \E use_moderation \in BOOLEAN, r \in SelfRefineReplies :
       gen' = [op |-> "generate", kind |-> "self_refine",
               use_moderation |-> use_moderation, replies |-> r,
               result |-> SelfRefineBot_generate_post_with_details(use_moderation, r)]
  /\ UNCHANGED <<val, orchVars, pmVars>>

\* generate_post_with_details() of a DPOBot, on any replies
CallDPOGenerate ==
  /\ gen = NoCall /\ val = NoCall
  /\ \E use_moderation \in BOOLEAN, r \in DPOReplies :
       gen' = [op |-> "generate", kind |-> "dpo",
               use_moderation |-> use_moderation, replies |-> r,
               result |-> DPOBot_generate_post_with_details(use_moderation, r)]
  /\ UNCHANGED <<val, orchVars, pmVars>>

\* validate_post(content) of any of the three classes
CallValidate ==
  /\ gen = NoCall /\ val = NoCall
  /\ \E kind \in Kinds, content \in ValidateTexts \cup
                          {SelfRefine_fallbacks[i] : i \in Picks} \cup
                          {DPO_fallbacks[i] : i \in Picks} :
       val' = [op |-> "validate", kind |-> kind, content |-> content,
               result |-> validate_post(kind, content)]
  /\ UNCHANGED <<gen, orchVars, pmVars>>

\* the caller takes the result; the strategy object keeps nothing of the call
Return ==
  /\ gen # NoCall \/ val # NoCall
  /\ gen' = NoCall
  /\ val' = NoCall
  /\ UNCHANGED <<orchVars, pmVars>>

(***************************************************************************)
(* PREFERENCE MANAGER.  preferences.db is an SQLite file that several      *)
(* processes open (the training console, tests, the module-level           *)
(* instance).  Every method opens its own connection; Python's sqlite3     *)
(* begins a transaction before the first INSERT/UPDATE of a connection and *)
(* ends it at commit(), the writer holds the database's write lock all the *)
(* while, and readers on other connections see the committed rows only.    *)
(***************************************************************************)
MaxRows == 3
MaxModels == 2
\* the example counts a caller passes to deploy_dpo_model
TrainingExampleArgs == {2}
\* the training console, which saves and deploys, and a second deployer
Procs == {"console", "deployer"}
SessionIds == {"s1", "s2"}

Example(text, rating) == [best_candidate |-> [candidate |-> text, rating |-> rating]]
E1 == Example(<<Ahoy, Sp, Prose(9), Sp, AI>>, 5)
E3 == Example(<<Ahoy, Sp, Treasure, Sp, Prose(40)>>, 2)

\* session_data as the console builds it for a session: the first session's
\* saves carry the console's list after the first rating (one example), its
\* list after the second rating (that example and a low-rated one), or no
\* examples key at all; the second session's carry one low-rated example
SessionData(session_id) ==
  IF session_id = "s1"
  THEN { [dpo_learning_data |-> es] : es \in { <<E1>>, <<E1, E3>> } }
         \cup { [session_metadata |-> "none"] }
  ELSE { [dpo_learning_data |-> <<E3>>] }

dpo_learning_data(data) ==
  IF "dpo_learning_data" \in DOMAIN data THEN data.dpo_learning_data ELSE <<>>

Idle == [pc |-> "idle"]

PMIdle ==
  /\ user_preferences = <<>>
  /\ deployed_models = <<>>
  /\ clock = 1
  /\ dbLock = None
  /\ proc = [p \in Procs |-> Idle]
  /\ saves = [sid \in SessionIds |-> <<>>]
  /\ outcome = [p \in Procs |-> [op |-> "none", status |-> "none"]]

\* ORDER BY timestamp ASC; rows of equal timestamp stay in rowid order
RECURSIVE InsertByTimestamp(_, _)
InsertByTimestamp(row, sorted) ==
  IF sorted = <<>> THEN <<row>>
  ELSE IF row.timestamp < Head(sorted).timestamp THEN <<row>> \o sorted
  ELSE <<Head(sorted)>> \o InsertByTimestamp(row, Tail(sorted))

RECURSIVE OrderByTimestamp(_)
OrderByTimestamp(rows) ==
  IF rows = <<>> THEN <<>>
  ELSE InsertByTimestamp(rows[Len(rows)], OrderByTimestamp(SubSeq(rows, 1, Len(rows) - 1)))

\* WHERE session_id = ?
RECURSIVE WhereSession(_, _)
WhereSession(rows, session_id) ==
  IF rows = <<>> THEN <<>>
  ELSE IF Head(rows).session_id = session_id
  THEN <<Head(rows)>> \o WhereSession(Tail(rows), session_id)
  ELSE WhereSession(Tail(rows), session_id)

RECURSIVE Extend(_)
Extend(rows) ==
  IF rows = <<>> THEN <<>>
  ELSE dpo_learning_data(Head(rows).preferences_data) \o Extend(Tail(rows))

\* a read that forgets the WHERE clause
get_training_data_of_all_sessions(table, session_id) ==
  Extend(OrderByTimestamp(table))

\* PreferenceManager.get_training_data over the committed table
get_training_data(table, session_id) ==
  Extend(OrderByTimestamp(WhereSession(table, session_id)))

RECURSIVE SumLen(_)
SumLen(texts) == IF texts = <<>> THEN 0 ELSE StrLen(Head(texts)) + SumLen(Tail(texts))

\* a selection that keeps every example, whatever its rating
HighRated_of_all_examples(training_data) ==
  [i \in 1..Len(training_data) |-> training_data[i].best_candidate.candidate]

RECURSIVE HighRated(_)
HighRated(training_data) ==
  IF training_data = <<>> THEN <<>>
  ELSE LET best_candidate == Head(training_data).best_candidate
       IN IF best_candidate.rating >= 4
          THEN <<best_candidate.candidate>> \o HighRated(Tail(training_data))
          ELSE HighRated(Tail(training_data))

\* a Python tuple, as distinct from a list (a plain sequence)
Tuple(items) == [tuple |-> items]

pirate_words ==
  <<"ahoy", "matey", "avast", "spotted", "discovered", "treasure", "crew", "ship">>
tech_terms ==
  <<"AI", "ML", "GPT", "neural", "algorithm", "machine learning", "deep learning">>

\* sum(1 for post in high_rated_examples if word.lower() in post.lower())
CountIn(word, texts) ==
  Cardinality({i \in 1..Len(texts) : Contains(Lower(texts[i]), LowerWord(word))})

\* the (word, count) tuples of the words found, in the order of the word list
RECURSIVE Counted(_, _)
Counted(words, texts) ==
  IF words = <<>> THEN <<>>
  ELSE (IF CountIn(Head(words), texts) > 0
        THEN <<Tuple(<<Head(words), CountIn(Head(words), texts)>>)>>
        ELSE <<>>) \o Counted(Tail(words), texts)

\* sorted(word_counts.items(), key=lambda x: x[1], reverse=True): by count,
\* largest first, equal counts in their former order; no count exceeds top
RECURSIVE SortedByCount(_, _)
SortedByCount(items, top) ==
  IF top = 0 THEN <<>>
  ELSE LET HasCount(t) == t.tuple[2] = top
       IN SelectSeq(items, HasCount) \o SortedByCount(items, top - 1)

\* PreferenceManager._create_dpo_model_config (the constant preference weights
\* and training_date left out)
create_dpo_model_config(training_data) ==
  LET total_examples == Len(training_data)
      high_rated_examples == HighRated(training_data)
      some == high_rated_examples # <<>>
  IN IF total_examples = 0
     THEN [avg_length |-> 0, pirate_words |-> <<>>, tech_companies |-> <<>>]
     ELSE [avg_length |-> IF some THEN SumLen(high_rated_examples) \div Len(high_rated_examples)
                          ELSE 0,
           pirate_words |-> IF some
                            THEN SortedByCount(Counted(pirate_words, high_rated_examples),
                                               Len(high_rated_examples))
                            ELSE <<>>,
           tech_companies |-> IF some THEN Counted(tech_terms, high_rated_examples)
                              ELSE <<>>,
           training_metadata |-> [total_examples |-> total_examples,
                                  high_rated_examples |-> Len(high_rated_examples)]]

\* a list as json.dumps writes it: a tuple becomes an array, as a list does
ArrayOf(list) ==
  [i \in 1..Len(list) |-> IF DOMAIN list[i] = {"tuple"} THEN list[i].tuple ELSE list[i]]

\* json.dumps(model_config): the JSON value written to the row
json_dumps(model_config) ==
  [key \in DOMAIN model_config |->
     IF key \in {"pirate_words", "tech_companies"}
     THEN ArrayOf(model_config[key]) ELSE model_config[key]]

\* json.loads: objects become dicts, arrays lists, numbers and strings
\* themselves
json_loads(value) == value

\* the rows of technique that are active, in table order
ActiveRows(table, technique) ==
  LET IsActive(row) == row.technique = technique /\ row.status = "active"
  IN SelectSeq(table, IsActive)

\* ORDER BY timestamp DESC LIMIT 1 over rows that are in ascending order
LatestOf(rows) == OrderByTimestamp(rows)[Len(rows)]

\* a read of the table's first row, whatever its status and technique
get_active_model_config_of_first_row(table, technique) ==
  IF table = <<>> THEN <<>> ELSE <<json_loads(table[1].model_config)>>

\* PreferenceManager.get_active_model_config over the committed table; the
\* Optional result is <<>> for None and <<config>> for a configuration
get_active_model_config(table, technique) ==
  IF ActiveRows(table, technique) = <<>> THEN <<>>
  ELSE <<json_loads(LatestOf(ActiveRows(table, technique)).model_config)>>

\* save_dpo_training_session(session_data, session_id): one INSERT, committed
SaveSession(p) ==
  /\ p = "console"
  /\ proc[p].pc = "idle"
  /\ dbLock = None
  /\ Len(user_preferences) < MaxRows
  /\ \E session_id \in SessionIds : \E session_data \in SessionData(session_id) :
       LET row == [id |-> Len(user_preferences) + 1,
                   timestamp |-> clock,
                   technique |-> "dpo",
                   session_id |-> session_id,
                   preferences_data |-> session_data,
                   deployed |-> FALSE]
       IN /\ user_preferences' = Append(user_preferences, row)
          /\ saves' = [saves EXCEPT ![session_id] = Append(@, dpo_learning_data(session_data))]
          /\ outcome' = [outcome EXCEPT ![p] =
                           [op |-> "save", status |-> "ok"]]
  /\ clock' = clock + 1
  /\ UNCHANGED <<deployed_models, dbLock, proc, orchVars, stratVars>>

\* the INSERT finds the database locked by another writer until its busy
\* timeout runs out: sqlite3.OperationalError, nothing written
SaveLocked(p) ==
  /\ p = "console"
  /\ proc[p].pc = "idle"
  /\ dbLock \notin {None, p}
  /\ outcome' = [outcome EXCEPT ![p] = [op |-> "save", status |-> "OperationalError"]]
  /\ UNCHANGED <<user_preferences, deployed_models, clock, dbLock, proc, saves,
                 orchVars, stratVars>>

\* a deploy that goes on without training data
DeployRead_without_check(p) ==
  /\ proc[p].pc = "idle"
  /\ Len(deployed_models) + Cardinality({q \in Procs : proc[q].pc # "idle"}) < MaxModels
  /\ \E session_id \in SessionIds, training_examples \in TrainingExampleArgs :
       LET training_data == get_training_data(user_preferences, session_id)
       IN /\ proc' = [proc EXCEPT ![p] =
                        [pc |-> "deactivate",
                         session_id |-> session_id,
                         training_examples |-> training_examples,
                         model_config |-> create_dpo_model_config(training_data),
                         models |-> <<>>, preferences |-> <<>>]]
          /\ outcome' = [outcome EXCEPT ![p] =
                           [op |-> "deploy", status |-> "running"]]
  /\ UNCHANGED <<user_preferences, deployed_models, clock, dbLock, saves,
                 orchVars, stratVars>>

\* deploy_dpo_model(session_id, training_examples), up to the first write:
\* read the training data, raise ValueError when there is none, build the
\* model configuration
DeployRead(p) ==
  /\ proc[p].pc = "idle"
  /\ Len(deployed_models) + Cardinality({q \in Procs : proc[q].pc # "idle"}) < MaxModels
  /\ \E session_id \in SessionIds, training_examples \in TrainingExampleArgs :
       LET training_data == get_training_data(user_preferences, session_id)
       IN IF training_data = <<>>
          THEN /\ outcome' = [outcome EXCEPT ![p] =
                                [op |-> "deploy", status |-> "ValueError"]]
               /\ proc' = proc
          ELSE /\ proc' = [proc EXCEPT ![p] =
                             [pc |-> "deactivate",
                              session_id |-> session_id,
                              training_examples |-> training_examples,
                              model_config |-> create_dpo_model_config(training_data),
                              models |-> <<>>, preferences |-> <<>>]]
               /\ outcome' = [outcome EXCEPT ![p] =
                                [op |-> "deploy", status |-> "running"]]
  /\ UNCHANGED <<user_preferences, deployed_models, clock, dbLock, saves,
                 orchVars, stratVars>>

\* a deploy whose first statement changes no row
DeployDeactivate_keeps_active(p) ==
  /\ proc[p].pc = "deactivate"
  /\ dbLock = None
  /\ dbLock' = p
  /\ proc' = [proc EXCEPT ![p].pc = "insert",
                          ![p].models = deployed_models,
                          ![p].preferences = user_preferences]
  /\ UNCHANGED <<user_preferences, deployed_models, clock, saves, outcome,
                 orchVars, stratVars>>

\* UPDATE deployed_models SET status = 'inactive' WHERE technique = 'dpo':
\* the transaction begins and takes the write lock; the change stays in the
\* connection until commit
DeployDeactivate(p) ==
  /\ proc[p].pc = "deactivate"
  /\ dbLock = None
  /\ dbLock' = p
  /\ proc' = [proc EXCEPT ![p].pc = "insert",
                          ![p].models =
                             [i \in 1..Len(deployed_models) |->
                                IF deployed_models[i].technique = "dpo"
                                THEN [deployed_models[i] EXCEPT !.status = "inactive"]
                                ELSE deployed_models[i]],
                          ![p].preferences = user_preferences]
  /\ UNCHANGED <<user_preferences, deployed_models, clock, saves, outcome,
                 orchVars, stratVars>>

\* the UPDATE finds the database locked by another writer until its busy
\* timeout runs out: sqlite3.OperationalError leaves deploy_dpo_model
DeployLocked(p) ==
  /\ proc[p].pc = "deactivate"
  /\ dbLock \notin {None, p}
  /\ proc' = [proc EXCEPT ![p] = Idle]
  /\ outcome' = [outcome EXCEPT ![p].status = "OperationalError"]
  /\ UNCHANGED <<user_preferences, deployed_models, clock, dbLock, saves,
                 orchVars, stratVars>>

\* INSERT INTO deployed_models (..., status) VALUES (..., 'active')
DeployInsert(p) ==
  /\ proc[p].pc = "insert"
  /\ proc' = [proc EXCEPT ![p].pc = "mark",
                          ![p].models = Append(@,
                             [id |-> Len(proc[p].models) + 1,
                              timestamp |-> clock,
                              technique |-> "dpo",
                              model_config |-> json_dumps(proc[p].model_config),
                              training_examples |-> proc[p].training_examples,
                              status |-> "active"])]
  /\ clock' = clock + 1
  /\ UNCHANGED <<user_preferences, deployed_models, dbLock, saves, outcome,
                 orchVars, stratVars>>

\* UPDATE user_preferences SET deployed = TRUE WHERE session_id = ? AND technique = 'dpo'
DeployMark(p) ==
  /\ proc[p].pc = "mark"
  /\ proc' = [proc EXCEPT ![p].pc = "commit",
                          ![p].preferences =
                             [i \in 1..Len(proc[p].preferences) |->
                                IF /\ proc[p].preferences[i].session_id = proc[p].session_id
                                   /\ proc[p].preferences[i].technique = "dpo"
                                THEN [proc[p].preferences[i] EXCEPT !.deployed = TRUE]
                                ELSE proc[p].preferences[i]]]
  /\ UNCHANGED <<user_preferences, deployed_models, clock, dbLock, saves, outcome,
                 orchVars, stratVars>>

\* conn.commit(): the three statements become visible at once, the lock is
\* released, and the deployment record is returned
DeployCommit(p) ==
  /\ proc[p].pc = "commit"
  /\ deployed_models' = proc[p].models
  /\ user_preferences' = proc[p].preferences
  /\ dbLock' = None
  /\ outcome' = [outcome EXCEPT ![p].status = "deployed"]
  /\ proc' = [proc EXCEPT ![p] = Idle]
  /\ UNCHANGED <<clock, saves, orchVars, stratVars>>

(***************************************************************************)
(* ORCHESTRATOR                                                            *)
(***************************************************************************)
MaxBots == 3
MaxTicks == 6

\* _initialize_bots: one strategy object per enabled strategy of the
\* configuration, in the configuration's order.  The one class the orchestrator
\* builds is SelfRefineBot; use_moderation is config.get(..., True).  The
\* constructors are taken to succeed; the list may hold any number of entries
\* up to MaxBots, the rotation being written for any length.
initialize_bots(enabled) ==
  [i \in 1..enabled |-> [bot_type |-> "self_refine", use_moderation |-> TRUE]]

\* what the services answer during a tick
TickReplies ==
  { [draft |-> d, mod1 |-> "pass", critique |-> ChatOk(<<Prose(200)>>), refine |-> f,
     mod2 |-> "pass", pick |-> 1] :
      d \in {ChatOk(DraftGood), ChatRaise("Request timed out.")},
      f \in {ChatOk(<<Matey, Prose(119), Sp, WritingHand>>), ChatOk(<<Prose(90)>>)} }

\* a posting call that returns a record whatever the service did
post_to_bluesky_always_posts(bot, content, service, uri) ==
  [posted |-> TRUE, uri |-> uri, bot_type |-> bot.bot_type, text |-> content,
   likes |-> 0, reposts |-> 0, replies |-> 0]

\* BaseBot.post_to_bluesky: the post's record when login and send_post went
\* through (posted), None when either raised (not posted); the service names every post anew
post_to_bluesky(bot, content, service, uri) ==
  IF service = "ok"
  THEN [posted |-> TRUE, uri |-> uri, bot_type |-> bot.bot_type, text |-> content,
        likes |-> 0, reposts |-> 0, replies |-> 0]
  ELSE [posted |-> FALSE]

\* a trace row written without its error
ProcessRow_without_error(id, process_data) ==
  [id |-> id,
   bot_type |-> process_data.bot_type,
   initial_draft |-> process_data.initial_draft,
   critique |-> process_data.critique,
   refined_post |-> process_data.refined_post,
   improvement_made |-> process_data.improvement_made,
   post_success |-> process_data.post_success,
   error_message |-> ""]

\* the row _save_post_process inserts (timestamp and prompt left out)
ProcessRow(id, process_data) ==
  [id |-> id,
   bot_type |-> process_data.bot_type,
   initial_draft |-> process_data.initial_draft,
   critique |-> process_data.critique,
   refined_post |-> process_data.refined_post,
   improvement_made |-> process_data.improvement_made,
   post_success |-> process_data.post_success,
   error_message |-> process_data.error_message]

\* a text-service call of this generate() raised: the last call made is a chat
\* call whose reply is an exception
TextServiceRaised(r, g) ==
  LET last == g.calls[Len(g.calls)]
  IN /\ last.svc = "chat"
     /\ \/ last.prompt = "generate" /\ ~r.draft.ok
        \/ last.prompt = "critique" /\ ~r.critique.ok
        \/ last.prompt = "refine" /\ ~r.refine.ok

\* a cursor that stays where it is
next_bot_index_stuck(index, n) == index

\* self.current_bot_index = (self.current_bot_index + 1) % len(self.bots)
next_bot_index(index, n) == (index + 1) % n

\* what the database bot_showdown.db answers to the writes of one tick: the
\* INSERT of _save_post, the INSERT of _save_post_process in the try block, and
\* the INSERT of _save_post_process in the except block; "locked" is
\* sqlite3.OperationalError
StoreOk == [post |-> "ok", trace |-> "ok", trace_except |-> "ok"]
StoreReplies ==
  { [post |-> p, trace |-> t, trace_except |-> x] :
      p \in {"ok", "locked"}, t \in {"ok", "locked"}, x \in {"ok", "locked"} }
StoreMessage == "database is locked"

\* the rows the calls of _save_post_process leave in the table: the try
\* block's when nothing raised, the except clause's when its own write went
\* through, none when that write raised too
saved_traces(raised, escaped, tried, excepted, id) ==
  IF ~raised THEN <<ProcessRow(id, tried)>>
  ELSE IF ~escaped THEN <<ProcessRow(id, excepted)>>
  ELSE <<>>

\* _post_next from the validation on: process_data is the tick's trace as
\* generation left it, post_data what the posting service would answer
post_next_saved(process_data, valid, post_data, db, id) ==
  LET posted == valid /\ post_data.posted
      saved == posted /\ db.post = "ok"
      \* process_data when the try block reaches its _save_post_process
      tried == IF ~valid
               THEN [process_data EXCEPT !.error_message = "Post validation failed"]
               ELSE IF post_data.posted
               THEN [process_data EXCEPT !.post_success = TRUE]
               ELSE [process_data EXCEPT !.error_message = "Bluesky API posting failed"]
      \* an exception in the try block: _save_post or _save_post_process raised
      raised == (posted /\ db.post = "locked") \/ db.trace = "locked"
      excepted == IF posted /\ db.post = "locked"
                  THEN [process_data EXCEPT !.error_message = StoreMessage]
                  ELSE [tried EXCEPT !.error_message = StoreMessage]
      escaped == raised /\ db.trace_except = "locked"
  IN [valid |-> valid,
      posting_called |-> valid,
      posted |-> posted,
      posts |-> IF saved THEN <<post_data>> ELSE <<>>,
      traces |-> saved_traces(raised, escaped, tried, excepted, id),
      escaped |-> escaped]

\* _post_next from the strategy's answer g on
post_next_generated(current_bot, g, service, db, uri, id) ==
  [generated |-> g] @@
  post_next_saved([g.details EXCEPT !.bot_type = current_bot.bot_type]
                    @@ [post_posted |-> TRUE, post_success |-> FALSE],
                  SelfRefineBot_validate_post(g.text),
                  post_to_bluesky(current_bot, g.text, service, uri),
                  db, id)

\* the body of _post_next after the cursor has moved: what it adds to the two
\* tables and whether an exception leaves the method (escaped)
post_next_result(current_bot, r, service, db, uri, id) ==
  post_next_generated(current_bot,
                      SelfRefineBot_generate_post_with_details(current_bot.use_moderation, r),
                      service, db, uri, id)

\* BotOrchestrator._post_next, the whole tick, the database answering with
\* one of stores
post_next_with(replies, stores) ==
  IF bots = <<>>
  THEN /\ tick' = [pos |-> 0, outcome |-> "no_bots", escaped |-> FALSE]
       /\ UNCHANGED <<bots, current_bot_index, posts, post_process, invoked>>
  ELSE
  \E r \in replies, service \in {"ok", "fail"}, db \in stores :
  \E pos \in {current_bot_index + 1} :
  \E res \in {post_next_result(bots[pos], r, service, db,
                                Len(posts) + 1, Len(post_process) + 1)} :
       /\ current_bot_index' = next_bot_index(current_bot_index, Len(bots))
       /\ posts' = posts \o res.posts
       /\ post_process' = post_process \o res.traces
       /\ invoked' = Append(invoked, pos)
       /\ tick' = [pos |-> pos,
                   at |-> now,
                   outcome |-> "done",
                   text_service_raised |-> TextServiceRaised(r, res.generated),
                   generated |-> res.generated,
                   valid |-> res.valid,
                   posting_called |-> res.posting_called,
                   service |-> service,
                   posted |-> res.posted,
                   escaped |-> res.escaped,
                   posts_before |-> Len(posts),
                   traces_before |-> Len(post_process)]
       /\ UNCHANGED bots

\* the tick with a database that takes every write
post_next == post_next_with(TickReplies, {StoreOk})

\* start(): mark the orchestrator running, schedule the jobs and post at once
Start ==
  /\ ~is_running
  /\ Len(invoked) < MaxTicks
  /\ is_running' = TRUE
  /\ post_next
  /\ UNCHANGED <<runVars, stratVars, pmVars>>

\* the posting job falls due in schedule.run_pending()
ScheduledPost ==
  /\ is_running
  /\ Len(invoked) < MaxTicks
  /\ post_next
  /\ UNCHANGED <<is_running, runVars, stratVars, pmVars>>

OrchInit ==
  /\ RunIdle
  /\ \E enabled \in 0..MaxBots : bots = initialize_bots(enabled)
  /\ current_bot_index = 0
  /\ is_running = FALSE
  /\ posts = <<>>
  /\ post_process = <<>>
  /\ tick = NoTick
  /\ invoked = <<>>

(***************************************************************************)
(* THE RUN OF start(): the immediate tick, the loop of run_pending, sleep  *)
(* and _should_stop, the two scheduled jobs, stop(), a database that may   *)
(* refuse a write, and the interrupt signal.  Time is counted in minutes,  *)
(* the unit of the loop's sleep and of both job intervals.                 *)
(***************************************************************************)
\* config['posting']['shift_interval_minutes']
PostInterval == 2
\* schedule.every(5).minutes.do(self._collect_metrics)
MetricsInterval == 5
\* config['project']['duration_days'], in minutes
Duration == 5

\* what the services answer during a tick of the run: a post that passes, a
\* refinement that fails validation, a failing draft call, a flagged draft, a
\* flagged refinement
RunReplies ==
  { [draft |-> ChatOk(DraftGood), mod1 |-> "pass", critique |-> ChatOk(<<Prose(200)>>),
     refine |-> ChatOk(<<Matey, Prose(119), Sp, WritingHand>>), mod2 |-> "pass", pick |-> 1],
    [draft |-> ChatOk(DraftGood), mod1 |-> "pass", critique |-> ChatOk(<<Prose(200)>>),
     refine |-> ChatOk(<<Prose(90)>>), mod2 |-> "pass", pick |-> 1],
    [draft |-> ChatRaise("Request timed out."), mod1 |-> "pass", critique |-> ChatOk(<<Prose(200)>>),
     refine |-> ChatOk(<<Prose(90)>>), mod2 |-> "pass", pick |-> 1],
    [draft |-> ChatOk(DraftGood), mod1 |-> "flagged", critique |-> ChatOk(<<Prose(200)>>),
     refine |-> ChatOk(<<Prose(90)>>), mod2 |-> "pass", pick |-> 1],
    [draft |-> ChatOk(DraftGood), mod1 |-> "pass", critique |-> ChatOk(<<Prose(200)>>),
     refine |-> ChatOk(<<Matey, Prose(119), Sp, WritingHand>>), mod2 |-> "flagged", pick |-> 1] }

\* a check that stops as soon as the duration is reached
should_stop_at_duration == start_time # <<>> /\ now - start_time[1] >= Duration

\* _should_stop: the campaign has lasted longer than the configured duration
should_stop == start_time # <<>> /\ now - start_time[1] > Duration

\* one call of _collect_metrics: it reads the counts and never raises
collect_metrics(caller) ==
  [timestamp |-> now, total_posts |-> Len(posts), caller |-> caller]

\* stop(): running is cleared, the schedule is cleared, one last call of
\* _collect_metrics
stop ==
  /\ is_running' = FALSE
  /\ jobs' = <<>>
  /\ metrics' = Append(metrics, collect_metrics("stop"))

\* a job of the schedule is due
Due(job) == job \in DOMAIN jobs /\ jobs[job] <= now

\* a start() that goes to its loop without the immediate tick
RunStart_without_first_tick ==
  /\ main = "created"
  /\ ~is_running
  /\ is_running' = TRUE
  /\ start_time' = <<now>>
  /\ jobs' = [job \in {"_post_next", "_collect_metrics"} |->
                IF job = "_post_next" THEN now + PostInterval ELSE now + MetricsInterval]
  /\ main' = "run_pending"
  /\ UNCHANGED <<bots, current_bot_index, posts, post_process, tick, invoked, now, metrics,
                 stratVars, pmVars>>

\* start() up to the immediate tick: the flags and the two jobs
RunStart ==
  /\ main = "created"
  /\ ~is_running
  /\ is_running' = TRUE
  /\ start_time' = <<now>>
  /\ jobs' = [job \in {"_post_next", "_collect_metrics"} |->
                IF job = "_post_next" THEN now + PostInterval ELSE now + MetricsInterval]
  /\ main' = "first_tick"
  /\ UNCHANGED <<bots, current_bot_index, posts, post_process, tick, invoked, now, metrics,
                 stratVars, pmVars>>

\* the immediate tick of start(), outside the loop's try: an exception that
\* leaves _post_next leaves start()
FirstTick ==
  /\ main = "first_tick"
  /\ post_next_with(RunReplies, StoreReplies)
  /\ main' = IF tick'.escaped THEN "raised" ELSE "run_pending"
  /\ UNCHANGED <<is_running, now, start_time, jobs, metrics, stratVars, pmVars>>

\* run_pending runs the posting job: the job is rescheduled when it returns;
\* an exception of the job leaves run_pending, the while loop and, not being
\* KeyboardInterrupt, start()
PendingPost ==
  /\ main = "run_pending"
  /\ Due("_post_next")
  /\ post_next_with(RunReplies, StoreReplies)
  /\ main' = IF tick'.escaped THEN "raised" ELSE "run_pending"
  /\ jobs' = IF tick'.escaped THEN jobs
             ELSE [jobs EXCEPT !["_post_next"] = now + PostInterval]
  /\ UNCHANGED <<is_running, now, start_time, metrics, stratVars, pmVars>>

\* run_pending runs the metrics job
PendingMetrics ==
  /\ main = "run_pending"
  /\ Due("_collect_metrics")
  /\ metrics' = Append(metrics, collect_metrics("schedule"))
  /\ jobs' = [jobs EXCEPT !["_collect_metrics"] = now + MetricsInterval]
  /\ UNCHANGED <<bots, current_bot_index, is_running, posts, post_process, tick, invoked,
                 main, now, start_time, stratVars, pmVars>>

\* run_pending returns, no job being due
PendingDone ==
  /\ main = "run_pending"
  /\ ~Due("_post_next")
  /\ ~Due("_collect_metrics")
  /\ main' = "sleep"
  /\ UNCHANGED <<bots, current_bot_index, is_running, posts, post_process, tick, invoked,
                 now, start_time, jobs, metrics, stratVars, pmVars>>

\* time.sleep(60)
Sleep ==
  /\ main = "sleep"
  /\ now' = now + 1
  /\ main' = "should_stop"
  /\ UNCHANGED <<bots, current_bot_index, is_running, posts, post_process, tick, invoked,
                 start_time, jobs, metrics, stratVars, pmVars>>

\* if self._should_stop(): self.stop(), then the while condition
CheckStop ==
  /\ main = "should_stop"
  /\ IF should_stop
     THEN stop /\ main' = "returned"
     ELSE main' = "run_pending" /\ UNCHANGED <<is_running, jobs, metrics>>
  /\ UNCHANGED <<bots, current_bot_index, posts, post_process, tick, invoked, now, start_time,
                 stratVars, pmVars>>

\* KeyboardInterrupt raised in the main thread between two calls of the loop:
\* the loop's except clause calls stop()
InterruptLoop ==
  /\ main \in {"run_pending", "sleep", "should_stop"}
  /\ stop
  /\ main' = "interrupt_stopped"
  /\ UNCHANGED <<bots, current_bot_index, posts, post_process, tick, invoked, now, start_time,
                 stratVars, pmVars>>

\* the points of _post_next at which the signal may arrive: during the calls
\* of the strategy, or after _save_post and before _save_post_process
Cuts == {"generate", "save_post"}

\* KeyboardInterrupt raised while _post_next runs.  It is no Exception: the
\* except clauses of the strategy and of _post_next let it pass, what the tick
\* wrote before the signal stays, the rest of the tick is not run.
interrupted_post_next(cut) ==
  /\ bots # <<>>
  /\ \E r \in RunReplies, service \in {"ok", "fail"} :
     \E pos \in {current_bot_index + 1} :
     \E res \in {post_next_result(bots[pos], r, service, StoreOk,
                                   Len(posts) + 1, Len(post_process) + 1)} :
          /\ current_bot_index' = next_bot_index(current_bot_index, Len(bots))
          /\ invoked' = Append(invoked, pos)
          /\ posts' = IF cut = "save_post" THEN posts \o res.posts ELSE posts
          /\ tick' = [pos |-> pos, at |-> now, outcome |-> "interrupted", cut |-> cut,
                      escaped |-> TRUE,
                      posted |-> cut = "save_post" /\ res.posted,
                      posts_before |-> Len(posts), traces_before |-> Len(post_process)]
          /\ UNCHANGED <<bots, post_process>>

\* the signal arrives during the immediate tick: no try encloses it, the
\* interrupt leaves start() and is caught by main() of run_bot.py
InterruptFirstTick ==
  /\ main = "first_tick"
  /\ \E cut \in Cuts : interrupted_post_next(cut)
  /\ main' = "interrupted"
  /\ UNCHANGED <<is_running, now, start_time, jobs, metrics, stratVars, pmVars>>

\* the signal arrives during a scheduled tick: the loop's except clause
\* calls stop()
InterruptPendingPost ==
  /\ main = "run_pending"
  /\ Due("_post_next")
  /\ \E cut \in Cuts : interrupted_post_next(cut)
  /\ is_running' = FALSE
  /\ jobs' = <<>>
  /\ metrics' = Append(metrics, [timestamp |-> now, total_posts |-> Len(posts'),
                                 caller |-> "stop"])
  /\ main' = "interrupt_stopped"
  /\ UNCHANGED <<now, start_time, stratVars, pmVars>>

(***************************************************************************)
(* SPECIFICATIONS                                                          *)
(***************************************************************************)
Init == OrchInit /\ StratIdle /\ PMIdle
Next == Start \/ ScheduledPost
Spec == Init /\ [][Next]_vars

InitStrategy == OrchIdle /\ StratIdle /\ PMIdle
NextStrategy == CallSelfRefineGenerate \/ CallDPOGenerate \/ CallValidate \/ Return
SpecStrategy == InitStrategy /\ [][NextStrategy]_vars

InitRun == OrchInit /\ StratIdle /\ PMIdle
NextRun ==
  \/ RunStart
  \/ FirstTick
  \/ PendingPost
  \/ PendingMetrics
  \/ PendingDone
  \/ Sleep
  \/ CheckStop
  \/ InterruptLoop
  \/ InterruptFirstTick
  \/ InterruptPendingPost
SpecRun == InitRun /\ [][NextRun]_vars

InitPM == OrchIdle /\ StratIdle /\ PMIdle
NextPM ==
  \E p \in Procs :
    \/ SaveSession(p)
    \/ SaveLocked(p)
    \/ DeployRead(p)
    \/ DeployDeactivate(p)
    \/ DeployLocked(p)
    \/ DeployInsert(p)
    \/ DeployMark(p)
    \/ DeployCommit(p)
SpecPM == InitPM /\ [][NextPM]_vars

(***************************************************************************)
(* PROPERTIES OF THE ORCHESTRATOR (Spec)                                   *)
(***************************************************************************)
LastTrace == post_process[Len(post_process)]

Active(models) ==
  {i \in 1..Len(models) : models[i].technique = "dpo" /\ models[i].status = "active"}

InTransaction(p) == proc[p].pc \in {"insert", "mark", "commit"}

\* C3: at most one 'dpo' profile is active in every state a reader of the
\* store can observe (the committed table), also between the statements of a
\* deploy and while two deploys overlap; once a deploy has committed there is
\* exactly one active profile, the latest, whatever deploys and saves follow.
\* The writer's own uncommitted view never holds two active profiles either.
C3_OneActiveProfile ==
  /\ Cardinality(Active(deployed_models)) <= 1
  /\ deployed_models # <<>> => Active(deployed_models) = {Len(deployed_models)}
  /\ \A p \in Procs : InTransaction(p) => Cardinality(Active(proc[p].models)) <= 1

\* between the statements of a second deploy, the first having committed from
\* the other process: the committed table shows the first profile active, the
\* writer's view shows it deactivated and the new row not yet inserted
C3_Witness ==
  \E p, q \in Procs :
    /\ p # q
    /\ outcome[p].status = "deployed"
    /\ proc[q].pc = "insert" /\ dbLock = q
    /\ Len(deployed_models) = 1 /\ deployed_models[1].status = "active"
    /\ Len(proc[q].models) = 1 /\ proc[q].models[1].status = "inactive"

\* C4: deploy for a session id without training data (no row, or rows without
\* examples) raises (ValueError in the code) and goes no further: no profile
\* row is inserted, the active profile stays active, no deployed flag changes.
C4_DeployWithoutData ==
  [][\A p \in Procs :
       (proc[p].pc = "idle" /\ outcome'[p].op = "deploy" /\ DeployRead(p)) =>
         /\ proc'[p].pc = "deactivate" =>
              get_training_data(user_preferences, proc'[p].session_id) # <<>>
         /\ (\A sid \in SessionIds : get_training_data(user_preferences, sid) = <<>>) =>
              outcome'[p].status = "ValueError"
         /\ outcome'[p].status = "ValueError" =>
              /\ proc' = proc
              /\ UNCHANGED <<user_preferences, deployed_models, dbLock>>]_vars

\* a deploy has failed for want of data while a profile is active, a session
\* row is marked deployed and another row has no examples key
C4_Witness ==
  /\ outcome["console"] = [op |-> "deploy", status |-> "ValueError"]
  /\ proc["console"].pc = "idle" /\ dbLock = None
  /\ Active(deployed_models) # {}
  /\ \E i, j \in 1..Len(user_preferences) :
       /\ user_preferences[i].deployed
       /\ dpo_learning_data(user_preferences[j].preferences_data) = <<>>

RECURSIVE Concatenation(_)
Concatenation(lists) ==
  IF lists = <<>> THEN <<>> ELSE Head(lists) \o Concatenation(Tail(lists))

\* C5: reading a session's training data returns the examples of that
\* session's saves, one call's after the other's in the order of the calls,
\* none duplicated or lost, and none of any other session.
C5_TrainingDataInOrder ==
  \A sid \in SessionIds :
    get_training_data(user_preferences, sid) = Concatenation(saves[sid])

\* two saves of different examples for one session and a save for the other
C5_Witness ==
  /\ Len(saves["s1"]) = 2
  /\ saves["s1"][1] = <<E1, E3>> /\ saves["s1"][2] = <<E1>>
  /\ Len(saves["s2"]) = 1 /\ saves["s2"][1] # <<>>
  /\ get_training_data(user_preferences, "s1") = <<E1, E3, E1>>

(***************************************************************************)
(* PROPERTIES OF THE STRATEGIES (SpecStrategy)                             *)
(***************************************************************************)
Validated == val.op = "validate"
Generated(kind) == gen.op = "generate" /\ gen.kind = kind

\* the rules of validate_post other than the length, stated on the text
OwnMarker(kind) == IF kind = "self_refine" THEN "writing_hand" ELSE "arrows"
NoForbidden(content, forbidden) ==
  \A word \in forbidden : ~Contains(Lower(content), word)
OtherRulesPass(kind, content) ==
  IF kind = "base"
  THEN NoForbidden(content, rules_forbidden_words)
         /\ Count(content, "#") <= rules_max_hashtags
  ELSE Contains(content, OwnMarker(kind)) /\ NoForbidden(content, prohibited)

\* C6: for every text and every validator (Self-Refine, DPO, the base class),
\* validate_post returns false whenever the text is longer than 300 characters,
\* whatever else it holds, and a text of exactly 300 characters passes when
\* the other rules pass.
C6_LengthLimit ==
  Validated =>
    /\ StrLen(val.content) > 300 => ~val.result
    /\ StrLen(val.content) = 300 => (val.result <=> OtherRulesPass(val.kind, val.content))

\* a text of exactly 300 characters was accepted
C6_Witness ==
  /\ Validated /\ val.kind = "self_refine"
  /\ StrLen(val.content) = 300
  /\ val.result

\* C7: a strategy's validate_post returns true if and only if the text has at
\* most 300 characters, holds the strategy's own signature emoji and holds none
\* of the prohibited strings (compared in lower case); a text without the
\* emoji, or with the other strategy's only, is rejected, and a weak or absent
\* pirate tone never is a reason for rejection.
C7_ValidateIff ==
  (Validated /\ val.kind \in {"self_refine", "dpo"}) =>
    (val.result <=>
       /\ StrLen(val.content) <= 300
       /\ Contains(val.content, OwnMarker(val.kind))
       /\ NoForbidden(val.content, prohibited))

\* a text without any pirate word was accepted
C7_Witness ==
  /\ Validated /\ val.kind = "dpo"
  /\ \A indicator \in DPO_pirate_indicators : ~Contains(Lower(val.content), indicator)
  /\ ~Contains(val.content, "writing_hand")
  /\ val.result

\* the refine call of this generate() was made and answered
Refined ==
  /\ Generated("self_refine")
  /\ gen.replies.draft.ok /\ gen.replies.critique.ok /\ gen.replies.refine.ok
  /\ \E i \in 1..Len(gen.result.calls) : gen.result.calls[i].prompt = "refine"

\* C8: Self-Refine, no call failing: improvement_made is false when the refine
\* output equals the initial draft and true when the two differ, as strings
\* (both stripped of surrounding blanks, as the code keeps them).
C8_ImprovementMade ==
  Refined =>
    /\ gen.result.details.improvement_made
         <=> Strip(gen.replies.refine.text) # Strip(gen.replies.draft.text)
    /\ gen.result.details.initial_draft = Strip(gen.replies.draft.text)
    /\ gen.result.details.refined_post = Strip(gen.replies.refine.text)

\* a refinement as long as the draft and different from it counted as an improvement
C8_Witness ==
  /\ Refined
  /\ StrLen(Strip(gen.replies.refine.text)) = StrLen(Strip(gen.replies.draft.text))
  /\ Strip(gen.replies.refine.text) # Strip(gen.replies.draft.text)
  /\ gen.result.details.improvement_made

\* the first "SELECTED WINNER:" line of the evaluation carries candidate i
WinnerIs(i) ==
  LET lines == gen.replies.rank.text
      candidates == gen.result.details.candidates_generated
  IN /\ Generated("dpo") /\ gen.replies.cands.ok /\ gen.replies.rank.ok
     /\ i \in 1..Len(candidates)
     /\ \E j \in 1..Len(lines) :
          /\ Strip(lines[j]) = WinnerLine(candidates[i])
          /\ \A k \in 1..(j - 1) : ~IsWinnerLine(lines[k])

NotFlagged == ~gen.use_moderation \/ gen.replies.mod # "flagged"

Pool(kind) ==
  IF kind = "self_refine" THEN {SelfRefine_fallbacks[i] : i \in Picks}
  ELSE {DPO_fallbacks[i] : i \in Picks}

\* C10: generate_post_with_details returns a (text, details) pair on every
\* expected failure.  Self-Refine: a text-service call that raises (a timeout,
\* a reply without content) or a flagged draft gives a pool post, a flagged
\* refinement gives the draft.  DPO: a failed candidate call or a flagged
\* winner gives a pool post, a failed evaluation call gives the first
\* candidate (when moderation does not flag it).  Whenever the text returned is a post of the strategy's pool,
\* error_message is not empty.
C10_FallbackHasError ==
  gen.op = "generate" =>
    LET r == gen.replies
        res == gen.result
        called(prompt) == \E i \in 1..Len(res.calls) : res.calls[i].prompt = prompt
        failed(prompt, reply) == called(prompt) /\ ~reply.ok
    IN /\ DOMAIN res = {"text", "details", "calls"}
       /\ res.text \in Pool(gen.kind) => res.details.error_message # ""
       /\ gen.kind = "self_refine" =>
            /\ (failed("generate", r.draft) \/ failed("critique", r.critique)
                   \/ failed("refine", r.refine))
                 => res.text \in Pool("self_refine")
            /\ (r.draft.ok /\ gen.use_moderation /\ r.mod1 = "flagged")
                 => res.text \in Pool("self_refine")
            /\ (Refined /\ gen.use_moderation /\ r.mod2 = "flagged")
                 => res.text = Strip(r.draft.text)
       /\ gen.kind = "dpo" =>
            /\ ~r.cands.ok => res.text \in Pool("dpo")
            /\ (failed("preference_evaluation", r.rank) /\ NotFlagged)
                 => res.text = res.details.candidates_generated[1]
            /\ (called("input") /\ r.mod = "flagged") => res.text \in Pool("dpo")

\* the third text-service call of a Self-Refine generate() raised: a pool post
\* came back with the exception's message
C10_Witness ==
  /\ Generated("self_refine")
  /\ gen.replies.draft.ok /\ gen.replies.critique.ok /\ ~gen.replies.refine.ok
  /\ Len(gen.result.calls) >= 3
  /\ gen.result.text \in Pool("self_refine")
  /\ gen.result.details.error_message = gen.replies.refine.msg
  /\ gen.result.details.error_message # ""

(***************************************************************************)
(* C11                                                                     *)
(***************************************************************************)
\* the tick that ran last was a whole run of _post_next on a strategy
TickDone == tick.pos > 0 /\ tick.outcome = "done"

\* C11: no error raised inside a tick escapes the tick: whatever fails during
\* generate, validate, post or persist, the failure of the trace write itself
\* included, no exception leaves _post_next and start() goes on with its loop
C11_NoErrorEscapesTick ==
  TickDone => (~tick.escaped /\ main # "raised")

(***************************************************************************)
(* C12                                                                     *)
(***************************************************************************)
\* the rows the last tick added to the posts table
NewPosts == SubSeq(posts, tick.posts_before + 1, Len(posts))

NewTraces == SubSeq(post_process, tick.traces_before + 1, Len(post_process))

\* the last tick's strategy met a moderation rejection: of the draft (a pool
\* post is returned) or of the refinement (the draft is returned)
ModerationRejected ==
  \/ tick.generated.details.error_message = "Content flagged by moderation"
  \/ /\ tick.generated.details.refined_post # <<>>
     /\ tick.generated.text = tick.generated.details.initial_draft
     /\ tick.generated.text # tick.generated.details.refined_post

\* how the last whole tick ended
TickEnding ==
  IF tick.escaped THEN "escaped"
  ELSE IF LastTrace.error_message = StoreMessage THEN "exception"
  ELSE IF ~tick.valid THEN "validation failure"
  ELSE IF tick.service = "fail" THEN "posting failure"
  ELSE IF ModerationRejected THEN "moderation rejection"
  ELSE IF tick.text_service_raised THEN "exception"
  ELSE "success"

\* a step in which _post_next ran on a strategy and returned
TickReturns ==
  /\ invoked' # invoked
  /\ tick'.outcome = "done"
  /\ ~tick'.escaped

\* C13: every tick that runs with at least one enabled strategy appends
\* exactly one trace row to the store, whether it ended in success, validation
\* failure, moderation rejection, posting failure or an exception
C13_EveryTickOneRow ==
  TickDone => Len(NewTraces) = 1

\* what holds of the trace table: a tick that returns appends exactly one
\* row, that of the strategy invoked, and no step updates or deletes a row
TracesAppendOnly ==
  [][/\ Len(post_process') >= Len(post_process)
     /\ SubSeq(post_process', 1, Len(post_process)) = post_process
     /\ TickReturns =>
          /\ Len(post_process') = Len(post_process) + 1
          /\ post_process'[Len(post_process')].id = Len(post_process')
          /\ post_process'[Len(post_process')].bot_type = bots[tick'.pos].bot_type
     /\ ~TickReturns => post_process' = post_process]_vars

\* a tick whose posts INSERT raised and whose except clause wrote the row
C13_Witness ==
  /\ TickDone
  /\ ~tick.escaped
  /\ tick.posted
  /\ Len(NewPosts) = 0
  /\ Len(NewTraces) = 1
  /\ TickEnding = "exception"
  /\ LastTrace.error_message = StoreMessage

(***************************************************************************)
(* C14                                                                     *)
(***************************************************************************)
\* C14: start() fires one tick immediately, at the time of start() and before
\* the loop's first run_pending and first sleep, on the first strategy; the
\* first timer-driven tick, one interval later, continues the rotation with
\* the next strategy
C14_ImmediateFirstTick ==
  (bots # <<>> /\ main \notin {"created", "first_tick"}) =>
    /\ Len(invoked) >= 1
    /\ invoked[1] = 1
    /\ Len(invoked) = 1 => tick.at = start_time[1]
    /\ Len(invoked) >= 2 => invoked[2] = (1 % Len(bots)) + 1
    /\ Len(invoked) = 2 =>
         /\ tick.at = start_time[1] + PostInterval
         /\ tick.pos = invoked[2]

\* the first timer-driven tick has run, on the second of several strategies
C14_Witness ==
  /\ Len(bots) >= 2
  /\ Len(invoked) = 2
  /\ TickDone
  /\ tick.pos = 2
  /\ main = "run_pending"

(***************************************************************************)
(* C15                                                                     *)
(***************************************************************************)
\* minutes since start()
Elapsed == now - start_time[1]

\* the calls of _collect_metrics made by stop()
FinalSnapshots == { i \in 1..Len(metrics) : metrics[i].caller = "stop" }

InterruptedInTick == tick.pos > 0 /\ tick.outcome = "interrupted"

\* C16: an interrupt that arrives while a tick is in progress, the immediate
\* first tick included, does not cut the tick short: the tick persists its
\* trace, and then the final metrics flush is made and the loop left
C16_InterruptedTickCompletes ==
  InterruptedInTick =>
    /\ Len(NewTraces) = 1
    /\ FinalSnapshots # {}
    /\ ~is_running

\* a scheduled tick cut after its post was published and saved: the post has
\* no trace row
C16_Witness ==
  /\ InterruptedInTick
  /\ main = "interrupt_stopped"
  /\ tick.posted
  /\ Len(NewPosts) = 1
  /\ Len(NewTraces) = 0
  /\ FinalSnapshots = {Len(metrics)}

(***************************************************************************)
(* C17                                                                     *)
(***************************************************************************)
Techniques == {"dpo", "self_refine"}

\* the step in which process p's deploy commits and returns
DeployReturns(p) == proc[p].pc = "commit" /\ proc'[p].pc = "idle"

\* the read returns None when no row of the technique is active, and
\* otherwise the configuration of an active row of the technique that no
\* other active row of it is later than
LatestActive(table, technique) ==
  LET active == { i \in 1..Len(table) :
                    table[i].technique = technique /\ table[i].status = "active" }
      result == get_active_model_config(table, technique)
  IN IF active = {} THEN result = <<>>
     ELSE \E i \in active :
            /\ \A j \in active : table[j].timestamp <= table[i].timestamp
            /\ result = <<table[i].model_config>>

\* C17 as stated: the read returns None when no profile of the strategy is
\* active and otherwise the latest active one by timestamp, and immediately
\* after a successful deploy it returns exactly the configuration that the
\* deploy returned
C17_ExactlyTheDeployed ==
  [][/\ \A technique \in Techniques : LatestActive(deployed_models', technique)
     /\ \A p \in Procs :
          DeployReturns(p) =>
            get_active_model_config(deployed_models', "dpo") = <<proc[p].model_config>>]_vars

\* C17 as the code has it: the same, the configuration read back being the
\* deployed one as JSON carries it, field for field, its (word, count)
\* tuples read back as two-element lists
C17_ActiveProfile ==
  [][/\ \A technique \in Techniques : LatestActive(deployed_models', technique)
     /\ \A p \in Procs :
          DeployReturns(p) =>
            /\ get_active_model_config(deployed_models', "dpo")
                 = <<json_loads(json_dumps(proc[p].model_config))>>
            /\ get_active_model_config(deployed_models', "self_refine") = <<>>]_vars

\* a second deploy has committed: the first profile is inactive, the read
\* returns the second, which holds word counts
C17_Witness ==
  /\ Len(deployed_models) = 2
  /\ deployed_models[1].status = "inactive"
  /\ deployed_models[1].model_config # deployed_models[2].model_config
  /\ \E p \in Procs : outcome[p].status = "deployed"
  /\ get_active_model_config(deployed_models, "dpo") = <<deployed_models[2].model_config>>
  /\ deployed_models[2].model_config.pirate_words # <<>>

(***************************************************************************)
(* C18                                                                     *)
(***************************************************************************)
\* the positions of the moderation calls in the call log of the last generate()
ModerationCalls ==
  { i \in 1..Len(gen.result.calls) : gen.result.calls[i].svc = "moderation" }

\* C18 as stated: in one generate() of Self-Refine that reaches its refined
\* candidate with moderation enabled, the moderation service is consulted
\* exactly once, on the refined candidate and never on the initial draft; a
\* flagged candidate makes the strategy return the initial draft
C18_ModeratedOnce ==
  (Refined /\ gen.use_moderation) =>
    /\ Cardinality(ModerationCalls) = 1
    /\ \A i \in ModerationCalls :
         gen.result.calls[i].args = <<gen.result.details.refined_post>>
    /\ gen.replies.mod2 = "flagged" => gen.result.text = gen.result.details.initial_draft

\* C18 as the code has it: with moderation enabled the service is consulted on
\* the initial draft, as the second call, and on the refined candidate, as the
\* last call, and on nothing else; without it, never.  A flagged draft ends
\* the run with a post of the pool and no critique call; a flagged refined
\* candidate gives the initial draft, not a post of the pool, without error;
\* a refined candidate that is not flagged, or whose check raises, is returned.
C18_ModeratedTwice ==
  Generated("self_refine") =>
    LET r == gen.replies
        res == gen.result
        calls == res.calls
    IN /\ ~gen.use_moderation => ModerationCalls = {}
       /\ (gen.use_moderation /\ ~r.draft.ok) => ModerationCalls = {}
       /\ (gen.use_moderation /\ r.draft.ok) =>
            /\ 2 \in ModerationCalls
            /\ calls[2].args = <<res.details.initial_draft>>
            /\ ModerationCalls \subseteq {2, 5}
            /\ r.mod1 = "flagged" =>
                 /\ Len(calls) = 2
                 /\ res.text \in Pool("self_refine")
                 /\ res.details.error_message = "Content flagged by moderation"
       /\ (gen.use_moderation /\ Refined) =>
            /\ ModerationCalls = {2, 5}
            /\ Len(calls) = 5
            /\ calls[5].args = <<res.details.refined_post>>
            /\ r.mod2 = "flagged" =>
                 /\ res.text = res.details.initial_draft
                 /\ res.details.error_message = ""
            /\ r.mod2 # "flagged" => res.text = res.details.refined_post

\* both checks were made, the draft passed, the refined candidate was flagged
\* and the draft, which is no post of the pool, came back
C18_Witness ==
  /\ Refined
  /\ gen.use_moderation
  /\ gen.replies.mod1 = "pass"
  /\ gen.replies.mod2 = "flagged"
  /\ Cardinality(ModerationCalls) = 2
  /\ gen.result.text = Strip(gen.replies.draft.text)
  /\ gen.result.text \notin Pool("self_refine")
  /\ gen.result.text # gen.result.details.refined_post

(***************************************************************************)
(* C19                                                                     *)
(***************************************************************************)
\* the success path of Self-Refine: the three text-service calls answered and
\* the refined candidate not rejected by moderation
SuccessPath ==
  /\ Refined
  /\ gen.use_moderation => gen.replies.mod2 # "flagged"

EndsWith(s, w) == s # <<>> /\ s[Len(s)].w = w

\* C19: the text Self-Refine returns on the success path is at most 300
\* characters long and ends with the complete signature marker, for every
\* refine output, whatever its length
C19_MarkerAppended ==
  SuccessPath =>
    /\ StrLen(gen.result.text) <= MaxPostLength
    /\ EndsWith(gen.result.text, OwnMarker("self_refine"))

\* a refine output of 306 characters came back as it was
C19_Witness ==
  /\ SuccessPath
  /\ gen.result.text = Strip(gen.replies.refine.text)
  /\ StrLen(gen.result.text) = 306
  /\ ~SelfRefineBot_validate_post(gen.result.text)

(***************************************************************************)
(* C20                                                                     *)
(***************************************************************************)
\* the prompts of the text-service calls of the last generate(), in order
RECURSIVE ChatPrompts(_)
ChatPrompts(calls) ==
  IF calls = <<>> THEN <<>>
  ELSE (IF Head(calls).svc = "chat" THEN <<Head(calls).prompt>> ELSE <<>>)
         \o ChatPrompts(Tail(calls))

Stages == <<"generate", "critique", "refine">>

\* what the text service answered at a stage
StageReply(stage) ==
  CASE stage = "generate" -> gen.replies.draft
    [] stage = "critique" -> gen.replies.critique
    [] stage = "refine" -> gen.replies.refine

\* the i-th call of the log was made and failed: a text-service call that
\* raised, or a moderation call that raised
CallFailed(i) ==
  LET call == gen.result.calls[i]
  IN IF call.svc = "chat" THEN ~StageReply(call.prompt).ok
     ELSE IF i = 2 THEN gen.replies.mod1 = "error" ELSE gen.replies.mod2 = "error"

\* the run ended in ERROR at call i: no call after it, a post of the pool,
\* the error recorded
EndedInError(i) ==
  /\ i = Len(gen.result.calls)
  /\ gen.result.text \in Pool("self_refine")
  /\ gen.result.details.error_message # ""

\* the text-service calls are made in the order draft, critique, refine, at
\* most once each, the critique prompt holding the draft and the refine
\* prompt the draft and the critique
CallsInOrder ==
  LET calls == gen.result.calls
      chat == ChatPrompts(calls)
  IN /\ Len(chat) \in 1..3
     /\ chat = SubSeq(Stages, 1, Len(chat))
     /\ \A i \in 1..Len(calls) :
          /\ calls[i].prompt = "generate" => calls[i].args = <<>>
          /\ calls[i].prompt = "critique" =>
               calls[i].args = <<Strip(gen.replies.draft.text)>>
          /\ calls[i].prompt = "refine" =>
               calls[i].args = <<Strip(gen.replies.draft.text),
                                 Strip(gen.replies.critique.text)>>

\* C20 as stated: the calls are in order, and as soon as any external call
\* fails, a moderation call included, the run ends in ERROR: no further call,
\* a fallback post, the error set
C20_AnyFailureIsError ==
  Generated("self_refine") =>
    /\ CallsInOrder
    /\ \A i \in 1..Len(gen.result.calls) : CallFailed(i) => EndedInError(i)

\* C20 as the code has it: the calls are in order; as soon as a text-service
\* call fails the run ends in ERROR, with the message of the exception; a
\* moderation call that fails is taken as a pass and the run goes on: the
\* next text-service call is made, or the refined candidate returned without
\* error
C20_TextFailureIsError ==
  Generated("self_refine") =>
    LET calls == gen.result.calls
    IN /\ CallsInOrder
       /\ \A i \in 1..Len(calls) :
            /\ (calls[i].svc = "chat" /\ CallFailed(i)) =>
                 /\ EndedInError(i)
                 /\ gen.result.details.error_message = StageReply(calls[i].prompt).msg
            /\ (calls[i].svc = "moderation" /\ CallFailed(i)) =>
                 IF i = 2
                 THEN Len(calls) >= 3 /\ calls[3].prompt = "critique"
                 ELSE /\ i = Len(calls)
                      /\ gen.result.text = gen.result.details.refined_post
                      /\ gen.result.details.error_message = ""

\* the critique call raised after a draft whose moderation check had failed
\* open: three calls, no refine call, a pool post with the exception's message
C20_Witness ==
  /\ Generated("self_refine")
  /\ gen.use_moderation
  /\ gen.replies.draft.ok
  /\ gen.replies.mod1 = "error"
  /\ ~gen.replies.critique.ok
  /\ ChatPrompts(gen.result.calls) = <<"generate", "critique">>
  /\ Len(gen.result.calls) = 3
  /\ gen.result.text \in Pool("self_refine")
  /\ gen.result.details.error_message = gen.replies.critique.msg

(***************************************************************************)
(* C21                                                                     *)
(***************************************************************************)
\* the candidates the last generate() of the DPO strategy passed on
Candidates == gen.result.details.candidates_generated

\* a call with this prompt is in the call log of the last generate()
Called(prompt) ==
  \E i \in 1..Len(gen.result.calls) : gen.result.calls[i].prompt = prompt

\* the lines of the candidate-generation reply
CandidateLines == StripSplit(gen.replies.cands.text)

\* C21: candidate generation of the DPO strategy: with fewer than 2
\* candidates parsed by the delimiter the candidates are those of the
\* heuristic parse; with fewer than 2 candidates still, the strategy aborts:
\* a post of the pool, the error set, no ranking call; never more than K
\* candidates are passed on
C21_AbortBelowTwo ==
  (Generated("dpo") /\ gen.replies.cands.ok) =>
    /\ Len(Candidates) <= num_candidates
    /\ Len(StructuredCandidates(CandidateLines)) < 2 =>
         Candidates = Take(EmojiLines(CandidateLines), num_candidates)
    /\ Len(Candidates) < 2 =>
         /\ gen.result.text \in Pool("dpo")
         /\ gen.result.details.error_message # ""
         /\ ~Called("preference_evaluation")

\* one candidate only was available and the ranking call was made on it
C21_Witness ==
  /\ Generated("dpo")
  /\ gen.replies.cands.ok
  /\ Len(Candidates) = 1
  /\ Called("preference_evaluation")
  /\ gen.replies.rank.ok
  /\ gen.result.text \notin Pool("dpo")
  /\ gen.result.details.improvement_made

(***************************************************************************)
(* C22                                                                     *)
(***************************************************************************)
\* the lines of the ranking reply
RankingLines == StripSplit(gen.replies.rank.text)

\* the ranking call was made and answered, and its reply has no
\* selected-winner line
NoWinnerLine ==
  /\ Generated("dpo")
  /\ gen.replies.cands.ok
  /\ Candidates # <<>>
  /\ gen.replies.rank.ok
  /\ \A j \in 1..Len(RankingLines) : ~IsWinnerLine(RankingLines[j])

\* the candidates that hold the signature marker
WithMarker == { i \in 1..Len(Candidates) : Contains(Candidates[i], "arrows") }

\* C22: when the ranking reply has no selected-winner line, the winner is the
\* first candidate of the parsed list that holds the signature marker, and
\* the first candidate when none holds it
C22_FirstMarkedCandidate ==
  NoWinnerLine =>
    gen.result.details.selected_candidate =
      IF WithMarker = {} THEN Candidates[1]
      ELSE Candidates[CHOOSE i \in WithMarker : \A j \in WithMarker : i <= j]

\* no winner line: a line of the ranking reply was selected, numbered as the
\* ranking numbered it, which is none of the candidates
C22_Witness ==
  /\ NoWinnerLine
  /\ \A i \in 1..Len(Candidates) : gen.result.details.selected_candidate # Candidates[i]
  /\ \E j \in 1..Len(RankingLines) :
       gen.result.details.selected_candidate = Strip(RankingLines[j])
  /\ NotFlagged
  /\ gen.result.text = gen.result.details.selected_candidate

(***************************************************************************)
(* C23                                                                     *)
(***************************************************************************)
\* a winner was selected through an answered ranking call and returned
SelectedByRanking ==
  /\ gen.replies.cands.ok
  /\ Candidates # <<>>
  /\ Called("preference_evaluation")
  /\ gen.replies.rank.ok
  /\ NotFlagged
  /\ gen.result.text = gen.result.details.selected_candidate
  /\ gen.result.text # <<>>

\* C23: DPO: improvement_made is true exactly when a winner was selected
\* through the ranking call and returned as the post; it is false whenever
\* the ranking call failed, no candidates were generated, the winner was
\* flagged by moderation or a fallback post was returned
C23_ImprovementIffSelected ==
  Generated("dpo") =>
    (gen.result.details.improvement_made <=> SelectedByRanking)

\* the ranking call raised: the first candidate came back as the post, with
\* improvement_made set and no error recorded
C23_Witness ==
  /\ Generated("dpo")
  /\ Called("preference_evaluation")
  /\ ~gen.replies.rank.ok
  /\ gen.result.details.improvement_made
  /\ gen.result.details.error_message = ""
  /\ gen.result.text = Candidates[1]

(***************************************************************************)
(* C24                                                                     *)
(***************************************************************************)
\* a generate() of DPO that reached the moderation gate with a selected post
GateReached ==
  /\ Generated("dpo")
  /\ gen.use_moderation
  /\ gen.result.details.selected_candidate # <<>>

\* C24: in DPO the moderation gate is applied to the selected winner only:
\* every moderation call of a generate() is made on selected_candidate, there
\* is at most one, and no call when moderation is off.  When the winner is
\* flagged its text is not returned: the output is a post of the fallback
\* pool, the trace records the rejection in error_message and
\* improvement_made stays false
C24_GateOnWinnerOnly ==
  Generated("dpo") =>
    /\ \A i \in ModerationCalls :
         gen.result.calls[i].args = <<gen.result.details.selected_candidate>>
    /\ Cardinality(ModerationCalls) = IF GateReached THEN 1 ELSE 0
    /\ (GateReached /\ gen.replies.mod = "flagged") =>
         /\ gen.result.text \in Pool("dpo")
         /\ gen.result.text # gen.result.details.selected_candidate
         /\ gen.result.details.error_message = "Content flagged by moderation"
         /\ ~gen.result.details.improvement_made

\* four candidates were parsed, the evaluation named the third, the
\* moderation service flagged it and a pool post came back
C24_Witness ==
  /\ GateReached
  /\ gen.replies.mod = "flagged"
  /\ Len(gen.result.details.candidates_generated) = num_candidates
  /\ gen.result.details.selected_candidate = gen.result.details.candidates_generated[3]
  /\ gen.result.text \in Pool("dpo")
  /\ gen.result.details.error_message = "Content flagged by moderation"

(***************************************************************************)
(* C25                                                                     *)
(***************************************************************************)
\* the answer of a moderation call that went through where the call raised
AsPassed(reply) == IF reply = "error" THEN "pass" ELSE reply

\* the last generate() run again with every raised moderation call answered
\* "not flagged" instead
ResultAsIfPassed ==
  IF gen.kind = "self_refine"
  THEN SelfRefineBot_generate_post_with_details(gen.use_moderation,
         [gen.replies EXCEPT !.mod1 = AsPassed(@), !.mod2 = AsPassed(@)])
  ELSE DPOBot_generate_post_with_details(gen.use_moderation,
         [gen.replies EXCEPT !.mod = AsPassed(@)])

\* the moderation replies of the last generate() that were consulted and raised
RaisedModeration ==
  IF gen.kind = "self_refine"
  THEN (Cardinality(ModerationCalls) >= 1 /\ gen.replies.mod1 = "error")
       \/ (Cardinality(ModerationCalls) = 2 /\ gen.replies.mod2 = "error")
  ELSE Cardinality(ModerationCalls) = 1 /\ gen.replies.mod = "error"

\* C25: moderation is fail-open in both strategies: a generate() in which a
\* moderation call raises returns exactly the text, the trace and the service
\* calls it would have returned had that call answered "not flagged"; when
\* every consulted moderation call raised or passed, no rejection is recorded
C25_ModerationFailOpen ==
  gen.op = "generate" =>
    /\ gen.result = ResultAsIfPassed
    /\ (RaisedModeration
        /\ (gen.kind = "self_refine" => gen.replies.mod1 # "flagged")
        /\ (gen.kind = "dpo" => gen.replies.mod # "flagged")) =>
         gen.result.details.error_message # "Content flagged by moderation"

\* DPO with moderation on: the moderation call on the winner raised, and the
\* winner was returned as an improvement without error
C25_Witness ==
  /\ GateReached
  /\ gen.replies.mod = "error"
  /\ gen.replies.rank.ok
  /\ gen.result.text = gen.result.details.selected_candidate
  /\ gen.result.text \notin Pool("dpo")
  /\ gen.result.details.improvement_made
  /\ gen.result.details.error_message = ""

(***************************************************************************)
(* C26                                                                     *)
(***************************************************************************)
\* the positions of the examples rated 4 or higher
HighRatedAt(training_data) ==
  {i \in 1..Len(training_data) : training_data[i].best_candidate.rating >= 4}

RECURSIVE TotalLength(_, _)
TotalLength(training_data, at) ==
  IF at = {} THEN 0
  ELSE LET i == CHOOSE j \in at : TRUE
       IN StrLen(training_data[i].best_candidate.candidate)
            + TotalLength(training_data, at \ {i})

\* the number of high-rated texts that hold the word, case-insensitively
HighRatedWith(training_data, word) ==
  Cardinality({i \in HighRatedAt(training_data) :
                 Contains(Lower(training_data[i].best_candidate.candidate),
                          LowerWord(word))})

\* the (word, count) entries are those of the words some high-rated text holds
CountsOnlyHighRated(entries, words, training_data) ==
  /\ \A k \in 1..Len(entries) :
       /\ \E w \in 1..Len(words) : entries[k].tuple[1] = words[w]
       /\ entries[k].tuple[2] = HighRatedWith(training_data, entries[k].tuple[1])
       /\ entries[k].tuple[2] > 0
  /\ \A w \in 1..Len(words) :
       HighRatedWith(training_data, words[w]) > 0 =>
         \E k \in 1..Len(entries) : entries[k].tuple[1] = words[w]

DerivedFromHighRated(model_config, training_data) ==
  LET at == HighRatedAt(training_data)
  IN /\ model_config.avg_length =
          IF at = {} THEN 0 ELSE TotalLength(training_data, at) \div Cardinality(at)
     /\ CountsOnlyHighRated(model_config.pirate_words, pirate_words, training_data)
     /\ CountsOnlyHighRated(model_config.tech_companies, tech_terms, training_data)

\* C26: the profile of a successful deploy derives from the examples rated 4
\* or higher only: the configuration a deploy builds from the training data it
\* read has avg_length the integer mean length of the high-rated texts (0 when
\* there are none) and keyword counts over the high-rated texts only, and the
\* row a deploy commits holds that configuration
C26_ProfileFromHighRated ==
  [][\A p \in Procs :
       /\ (proc[p].pc = "idle" /\ proc'[p].pc = "deactivate") =>
            DerivedFromHighRated(proc'[p].model_config,
                                 get_training_data(user_preferences, proc'[p].session_id))
       /\ (proc[p].pc = "commit" /\ proc'[p].pc = "idle") =>
            /\ Len(deployed_models') = Len(deployed_models) + 1
            /\ deployed_models'[Len(deployed_models')].model_config
                 = json_dumps(proc[p].model_config)]_vars

\* a deployed profile built from three examples of the first session, of which
\* the one rated 2 holds "ahoy" and "treasure" and is the longest: the mean
\* length is that of the other two, "ahoy" is counted twice and "treasure"
\* not at all
C26_Witness ==
  \E i \in 1..Len(deployed_models) :
    LET model_config == deployed_models[i].model_config
    IN /\ model_config.training_metadata.total_examples = 3
       /\ model_config.training_metadata.high_rated_examples = 2
       /\ model_config.avg_length = StrLen(E1.best_candidate.candidate)
       /\ model_config.pirate_words = << <<"ahoy", 2>> >>
       /\ model_config.tech_companies = << <<"AI", 2>> >>

(***************************************************************************)
(* C27                                                                     *)
(***************************************************************************)
\* the committed rows of a session
RowsOf(table, session_id) == WhereSession(table, session_id)

\* the session's flag as its rows show it: the session has rows and none of
\* them has deployed = FALSE
SessionDeployed(table, session_id) ==
  /\ RowsOf(table, session_id) # <<>>
  /\ \A i \in 1..Len(RowsOf(table, session_id)) : RowsOf(table, session_id)[i].deployed

\* the step in which a deploy of the session commits
DeployCommits(session_id) ==
  \E p \in Procs :
    /\ proc[p].pc = "commit"
    /\ proc[p].session_id = session_id
    /\ proc'[p].pc = "idle"

\* the flag turns true in the commit of a deploy of the session and in no
\* other step
C27_TrueAtDeployOnly ==
  [][\A session_id \in SessionIds :
       /\ DeployCommits(session_id) => SessionDeployed(user_preferences', session_id)
       /\ (~SessionDeployed(user_preferences, session_id)
           /\ SessionDeployed(user_preferences', session_id)) => DeployCommits(session_id)]_vars

\* a row once marked deployed is never reset
C27_RowsStayDeployed ==
  [][\A i \in 1..Len(user_preferences) :
       /\ i <= Len(user_preferences')
       /\ user_preferences[i].deployed => user_preferences'[i].deployed]_vars

\* C27 as stated: the deployed flag of a training session, once true, is true
\* in every later state, whatever is saved or deployed afterwards
C27_DeployedStaysTrue ==
  [][\A session_id \in SessionIds :
       SessionDeployed(user_preferences, session_id)
         => SessionDeployed(user_preferences', session_id)]_vars

\* the first session was saved, deployed, and saved again: its earlier row is
\* marked deployed, the row of the later save is not
C27_Witness ==
  /\ deployed_models # <<>>
  /\ \E i, j \in 1..Len(user_preferences) :
       /\ i < j
       /\ user_preferences[i].session_id = "s1"
       /\ user_preferences[j].session_id = "s1"
       /\ user_preferences[i].deployed
       /\ ~user_preferences[j].deployed

(***************************************************************************)
(* C28                                                                     *)
(***************************************************************************)
\* the texts of the parsed candidate list of the last generate()
CandidateSet == { Candidates[i] : i \in 1..Len(Candidates) }

\* C28 as stated: the text a DPO generate() returns is one of the parsed
\* candidates or a post of the fallback pool, never a text that appears in
\* the ranking reply only
C28_CandidateOrPool ==
  Generated("dpo") =>
    gen.result.text \in CandidateSet \cup Pool("dpo")

\* the ranking reply's winner line holds a text that is none of the four
\* candidates (the winner named by its number, or rewritten); that text came
\* back as the post, recorded as an improvement without error
C28_Witness ==
  /\ Generated("dpo")
  /\ gen.replies.rank.ok
  /\ Len(Candidates) = num_candidates
  /\ \E j \in 1..Len(RankingLines) : IsWinnerLine(RankingLines[j])
  /\ gen.result.text = WinnerLineText(RankingLines)
  /\ gen.result.text \in {CandidateRef(i) : i \in 1..num_candidates} \cup {Paraphrase}
  /\ gen.result.text \notin CandidateSet \cup Pool("dpo")
  /\ gen.result.details.improvement_made
  /\ gen.result.details.error_message = ""

(***************************************************************************)
(* C29                                                                     *)
(***************************************************************************)
\* the last tick's strategy returned a post of its fallback pool
TickFellBack == TickDone /\ tick.generated.text \in Pool("self_refine")

\* C29: every post of a strategy's fallback pool passes that strategy's own
\* validate_post; hence a tick whose generation fell back passes validation
\* and goes on to call the posting service with the fallback text (which the
\* posts row holds when the service succeeds)
C29_FallbackPassesValidation ==
  /\ \A i \in Picks :
       /\ SelfRefineBot_validate_post(SelfRefine_fallbacks[i])
       /\ DPOBot_validate_post(DPO_fallbacks[i])
  /\ TickFellBack =>
       /\ tick.valid
       /\ tick.posting_called
       /\ tick.generated.details.error_message # "Post validation failed"
       /\ tick.service = "ok" =>
            (Len(NewPosts) = 1 /\ NewPosts[1].text = tick.generated.text)

\* the draft call of a tick timed out, the strategy returned a pool post, the
\* posting service took it and the posts row holds the pool post
C29_Witness ==
  /\ TickFellBack
  /\ tick.text_service_raised
  /\ tick.generated.details.error_message = "Request timed out."
  /\ tick.valid /\ tick.posting_called /\ tick.posted
  /\ Len(NewPosts) = 1
  /\ NewPosts[1].text \in Pool("self_refine")

(***************************************************************************)
(* C30                                                                     *)
(***************************************************************************)
\* the saves of the session are those of the training console after n
\* ratings: the k-th save carries the list of the first k rated examples
ConsoleFlow(session_id, n) ==
  /\ Len(saves[session_id]) = n
  /\ \A k \in 1..n : Len(saves[session_id][k]) = k
  /\ \A k \in 1..(n - 1) :
       saves[session_id][k] = SubSeq(saves[session_id][k + 1], 1, k)

\* C30 as stated: when the console has rated n examples, saving its whole
\* list after each rating, a deploy with example_count n reads back the list
\* of the n rated examples, each once, and records total_examples = n
C30_EachExampleOnce ==
  [][\A p \in Procs :
       (/\ proc[p].pc = "idle"
        /\ proc'[p].pc = "deactivate"
        /\ ConsoleFlow(proc'[p].session_id, proc'[p].training_examples)) =>
          /\ get_training_data(user_preferences, proc'[p].session_id)
               = saves[proc'[p].session_id][proc'[p].training_examples]
          /\ proc'[p].model_config.training_metadata.total_examples
               = proc'[p].training_examples]_vars

\* the console rated two examples and saved its list after each; the deployed
\* row records 2 training examples, its profile 3 (the first example is read
\* back twice)
C30_Witness ==
  /\ ConsoleFlow("s1", 2)
  /\ Len(user_preferences) = 2
  /\ get_training_data(user_preferences, "s1") = <<E1, E1, E3>>
  /\ \E i \in 1..Len(deployed_models) :
       /\ deployed_models[i].training_examples = 2
       /\ deployed_models[i].model_config.training_metadata.total_examples = 3

====
